---- MODULE Spec2Model ----
(***************************************************************************)
(* Model of the Hoxton SEO platform request handlers (api/ and lib/).     *)
(* One request is handled at a time; a handler advances one step per      *)
(* awaited store or provider call group.  Strings that the code converts  *)
(* (toLowerCase, URL parsing) are sequences of one-character strings.     *)
(***************************************************************************)
EXTENDS Integers, Sequences, FiniteSets, TLC

\* ------------------------------------------------------------------------
\* Bounds of the model
\* ------------------------------------------------------------------------
MaxRequests == 1        \* requests handled in one behaviour

\* ------------------------------------------------------------------------
\* JavaScript values
\* ------------------------------------------------------------------------
Undefined == "<undefined>"      \* an absent property / header / env value
NullId == 0                     \* id: null of an inline keyword

Truthy(v) == v \notin {Undefined, ""}

UpperLetters ==
  <<"A", "B", "C", "D", "E", "F", "G", "H", "I", "J", "K", "L", "M",
    "N", "O", "P", "Q", "R", "S", "T", "U", "V", "W", "X", "Y", "Z">>

LowerLetters ==
  <<"a", "b", "c", "d", "e", "f", "g", "h", "i", "j", "k", "l", "m",
    "n", "o", "p", "q", "r", "s", "t", "u", "v", "w", "x", "y", "z">>

LowerChar(c) ==
  IF \E i \in DOMAIN UpperLetters : UpperLetters[i] = c
    THEN LowerLetters[CHOOSE i \in DOMAIN UpperLetters : UpperLetters[i] = c]
    ELSE c

toLowerCase(s) == [i \in 1..Len(s) |-> LowerChar(s[i])]

\* ------------------------------------------------------------------------
\* lib/errors.js
\* ------------------------------------------------------------------------
NoDetails == [none |-> TRUE]

AppError(code, message, status, details) ==
  [app |-> TRUE, code |-> code, message |-> message, status |-> status,
   details |-> details]

ValidationError(message, details) ==
  AppError("VALIDATION_ERROR", message, 400, details)

UnauthorizedError ==
  AppError("UNAUTHORIZED", "Invalid or missing API key", 401, NoDetails)

DuplicateError(resource) ==
  AppError("DUPLICATE_ERROR", resource \o " already exists", 409, NoDetails)

ExternalApiError(service, originalError) ==
  AppError("EXTERNAL_API_ERROR", service \o " API error: " \o originalError, 502,
           NoDetails)

DatabaseError(operation, originalError) ==
  AppError("DATABASE_ERROR", "Database " \o operation \o " failed", 500,
           [originalError |-> originalError.message])

\* a plain Error / TypeError / store error object: not an AppError
PlainError(message) ==
  [app |-> FALSE, code |-> "", message |-> message, status |-> 0,
   details |-> NoDetails]

\* variant of mapSupabaseError without the not-null case
mapSupabaseErrorNoNotNull(dbError, operation) ==
  IF dbError.code = "23505" THEN DuplicateError("Record")
  ELSE IF dbError.code = "23503"
         THEN ValidationError("Referenced record does not exist",
                              [constraint |-> dbError.constraint])
  ELSE DatabaseError(operation, dbError)

mapSupabaseError(dbError, operation) ==
  IF dbError.code = "23505" THEN DuplicateError("Record")
  ELSE IF dbError.code = "23503"
         THEN ValidationError("Referenced record does not exist",
                              [constraint |-> dbError.constraint])
  ELSE IF dbError.code = "23502"
         THEN ValidationError("Required field is null: " \o dbError.column, NoDetails)
  ELSE DatabaseError(operation, dbError)

\* ------------------------------------------------------------------------
\* lib/response.js
\* ------------------------------------------------------------------------
NoResponse == [status |-> 0, success |-> FALSE, code |-> "", message |-> "",
               details |-> NoDetails, data |-> <<>>, meta |-> NoDetails]

success(data, meta) ==
  [status |-> 200, success |-> TRUE, code |-> "", message |-> "",
   details |-> NoDetails, data |-> data, meta |-> meta]

created(data, meta) ==
  [status |-> 201, success |-> TRUE, code |-> "", message |-> "",
   details |-> NoDetails, data |-> data, meta |-> meta]

error(err) ==
  IF err.app
    THEN [status |-> err.status, success |-> FALSE, code |-> err.code,
          message |-> err.message, details |-> err.details, data |-> <<>>,
          meta |-> NoDetails]
    ELSE [status |-> 500, success |-> FALSE, code |-> "INTERNAL_ERROR",
          message |-> "An unexpected error occurred", details |-> NoDetails,
          data |-> <<>>, meta |-> NoDetails]

\* ------------------------------------------------------------------------
\* Program constants
\* ------------------------------------------------------------------------
DEFAULT_LOCATION == 2826
MAX_KEYWORDS == 100
MAX_SERP_KEYWORDS == 50
MAX_BATCH == 1000
STATUS_OK == 20000

COUNTRY_TO_LOCATION ==
  [c \in {"UK", "US", "UAE", "AU", "SG", "HK"} |->
     CASE c = "UK" -> 2826 [] c = "US" -> 2840 [] c = "UAE" -> 2784
       [] c = "AU" -> 2036 [] c = "SG" -> 2702 [] c = "HK" -> 2344]

VALID_COUNTRIES == <<"UK", "US", "UAE", "AU", "CA", "SG", "HK">>

\* COUNTRY_TO_LOCATION[country] || 2826
LocationCode(country) ==
  IF country \in DOMAIN COUNTRY_TO_LOCATION
    THEN COUNTRY_TO_LOCATION[country]
    ELSE DEFAULT_LOCATION

\* ------------------------------------------------------------------------
\* lib/auth.js
\* ------------------------------------------------------------------------
verifyApiKey(headerKey, envKey) == headerKey = envKey

\* ------------------------------------------------------------------------
\* lib/validate.js
\* ------------------------------------------------------------------------
MethodNotAllowed(method, allowed) ==
  ValidationError("Method not allowed",
                  [allowed |-> allowed, received |-> method])

\* ------------------------------------------------------------------------
\* Texts used as keyword texts
\* ------------------------------------------------------------------------
T_isa == <<"i", "s", "a">>
T_ISA == <<"I", "S", "A">>
T_sipp == <<"s", "i", "p", "p">>
T_Sipp == <<"S", "i", "p", "p">>
T_bond == <<"b", "o", "n", "d">>

\* "hoxtonwealth.com"
HOXTON_DOMAIN ==
  <<"h", "o", "x", "t", "o", "n", "w", "e", "a", "l", "t", "h", ".", "c",
  "o", "m">>

\* "rival.com"
D_rival ==
  <<"r", "i", "v", "a", "l", ".", "c", "o", "m">>

\* "https://www.HoxtonWealth.com/isa"
U_hoxton ==
  <<"h", "t", "t", "p", "s", ":", "/", "/", "w", "w", "w", ".", "H", "o",
  "x", "t", "o", "n", "W", "e", "a", "l", "t", "h", ".", "c", "o", "m", "/",
  "i", "s", "a">>

\* "http://Rival.com/"
U_rival ==
  <<"h", "t", "t", "p", ":", "/", "/", "R", "i", "v", "a", "l", ".", "c",
  "o", "m", "/">>

\* "https://blog.rival.com/p?x"
U_blog ==
  <<"h", "t", "t", "p", "s", ":", "/", "/", "b", "l", "o", "g", ".", "r",
  "i", "v", "a", "l", ".", "c", "o", "m", "/", "p", "?", "x">>

\* "Rival.com/p": no scheme, URL() throws on it
U_raw ==
  <<"R", "i", "v", "a", "l", ".", "c", "o", "m", "/", "p">>

\* "HTTPS://Other.com/"
U_shout ==
  <<"H", "T", "T", "P", "S", ":", "/", "/", "O", "t", "h", "e", "r", ".", "c",
    "o", "m", "/">>

\* "rival.com"
U_bare ==
  <<"r", "i", "v", "a", "l", ".", "c", "o", "m">>


DigitChar(n) == <<"0", "1", "2", "3", "4", "5", "6", "7", "8", "9">>[n + 1]

\* the text "k<id>" of a bulk keyword row
BulkText(i) ==
  <<"k", DigitChar(i \div 100), DigitChar((i \div 10) % 10), DigitChar(i % 10)>>

Range(a, b) == [i \in 1..(b - a + 1) |-> a + i - 1]

\* ------------------------------------------------------------------------
\* The metrics provider (DataForSEO): what one HTTP call can come back with
\* ------------------------------------------------------------------------
NullNum == 0 - 1        \* a numeric field the provider omits or sets to null

R_ISA ==
  [keyword |-> T_ISA, search_volume |-> 500, keyword_difficulty |-> NullNum,
   cpc |-> 2, competition |-> NullNum]

R_bond ==
  [keyword |-> T_bond, search_volume |-> NullNum, keyword_difficulty |-> 30,
   cpc |-> NullNum, competition |-> 1]

\* the result lists of a successful search-volume call
MetricResults == { <<>>, <<R_ISA, R_bond>>, <<R_ISA, R_ISA>> }

\* transport: "ok" (a JSON body arrived), "network" (fetch rejects),
\* "badjson" (response.json() rejects)
JsonReply(status_code, status_message, task_status, result) ==
  [transport |-> "ok", errmsg |-> "", status_code |-> status_code,
   status_message |-> status_message, task_status |-> task_status,
   task_message |-> IF task_status = STATUS_OK THEN "Ok." ELSE "Invalid Field",
   result |-> result]

FailedReplies ==
  { [transport |-> "network", errmsg |-> "fetch failed", status_code |-> 0,
     status_message |-> Undefined, task_status |-> 0, task_message |-> "",
     result |-> <<>>],
    [transport |-> "badjson", errmsg |-> "Unexpected token <", status_code |-> 0,
     status_message |-> Undefined, task_status |-> 0, task_message |-> "",
     result |-> <<>>],
    JsonReply(50000, "Internal Error", 0, <<>>),
    JsonReply(40100, Undefined, 0, <<>>),
    JsonReply(STATUS_OK, "Ok.", 40501, <<>>) }

MetricsReplies ==
  FailedReplies \cup
  { JsonReply(STATUS_OK, "Ok.", STATUS_OK, r) : r \in MetricResults }

\* the provider call failed as a whole: network failure, malformed payload,
\* or a non-success status code of the response or of its task
CallFailed(reply) ==
  \/ reply.transport # "ok"
  \/ reply.status_code # STATUS_OK
  \/ reply.task_status # STATUS_OK

\* api/enrich/keywords.js fetchDataForSEO, after the credentials check
fetchDataForSEO(reply) ==
  IF reply.transport # "ok"
    THEN [error |-> reply.errmsg, results |-> <<>>]
  ELSE IF reply.status_code # STATUS_OK
    THEN [error |-> IF Truthy(reply.status_message) THEN reply.status_message
                    ELSE "API request failed",
          results |-> <<>>]
  ELSE [error |-> Undefined, results |-> reply.result]

\* lib/dataforseo.js dataforseoRequest, after getAuthHeader
dataforseoRequest(reply) ==
  IF reply.transport # "ok"
    THEN [threw |-> TRUE, message |-> reply.errmsg, result |-> <<>>]
  ELSE IF reply.status_code # STATUS_OK
    THEN [threw |-> TRUE, message |-> "DataForSEO error", result |-> <<>>]
  ELSE IF reply.task_status # STATUS_OK
    THEN [threw |-> TRUE, message |-> "Task error", result |-> <<>>]
  ELSE [threw |-> FALSE, message |-> "", result |-> reply.result]

\* ------------------------------------------------------------------------
\* The store (Supabase tables)
\* ------------------------------------------------------------------------
StoredKeywords == 101   \* rows of the keywords table at the start

KeywordRow(i) ==
  [id |-> i,
   keyword_text |-> CASE i = 1 -> T_isa [] i = 2 -> T_isa [] i = 3 -> T_sipp
                      [] i = 4 -> T_bond [] OTHER -> BulkText(i),
   country |-> CASE i = 2 -> "US" [] i = 4 -> "CA" [] OTHER -> "UK",
   cluster |-> Undefined, page_id |-> NullId]

\* the rows the requests below can name by text; the other rows of the table
\* (bulk rows) are never written by them and are kept outside the state
NamedKeywords ==
  LET named == {i \in 1..StoredKeywords : KeywordRow(i).keyword_text # BulkText(i)}
  IN [i \in 1..Cardinality(named) |-> KeywordRow(i)]

BulkKeywords ==
  [i \in 1..(StoredKeywords - Len(NamedKeywords)) |->
     KeywordRow(Len(NamedKeywords) + i)]

InitialKeywords == NamedKeywords

\* the keywords table in order of creation: named rows, bulk rows, then the
\* rows written since
WithBulk(rows) ==
  SubSeq(rows, 1, Len(NamedKeywords)) \o BulkKeywords
  \o SubSeq(rows, Len(NamedKeywords) + 1, Len(rows))

WithoutBulk(table) ==
  SelectSeq(table, LAMBDA row :
              ~\E i \in DOMAIN BulkKeywords : BulkKeywords[i].id = row.id)

MissingId == 9000       \* ids from here on are never stored

\* supabase.from('keywords').select('id, keyword_text, country').in('id', ids):
\* the matching rows, in table order
SelectIn(table, ids) ==
  LET idset == {ids[j] : j \in DOMAIN ids}
      rows == SelectSeq(table, LAMBDA row : row.id \in idset)
  IN [i \in DOMAIN rows |->
        [id |-> rows[i].id, keyword_text |-> rows[i].keyword_text,
         country |-> rows[i].country]]

InitialPages ==
  << [id |-> 1, page_name |-> "Home", url |-> "/", cluster |-> "Strategy",
      level |-> 1] >>

\* a store call that fails for a reason of its own (connection, timeout)
StoreError == [code |-> "PGRST301", message |-> "connection refused",
               constraint |-> "", column |-> ""]

UniqueViolation(constraint) ==
  [code |-> "23505", message |-> "duplicate key value", constraint |-> constraint,
   column |-> ""]

ForeignKeyViolation(constraint) ==
  [code |-> "23503", message |-> "violates foreign key constraint",
   constraint |-> constraint, column |-> ""]

\* INSERT .. ON CONFLICT DO UPDATE reaching the same row twice
CardinalityViolation ==
  [code |-> "21000", message |-> "ON CONFLICT DO UPDATE command cannot affect row a second time",
   constraint |-> "", column |-> ""]

NoError == [code |-> "", message |-> "", constraint |-> "", column |-> ""]

MaxId(table) ==
  IF table = <<>> THEN 0
  ELSE LET ids == {table[i].id : i \in DOMAIN table}
       IN CHOOSE m \in ids : \A n \in ids : m >= n

InitialCompetitors == << [id |-> 1, domain |-> D_rival, name |-> "Rival"] >>

\* the snapshots an enrichment of keyword 3 left in the store earlier
InitialMetrics ==
  << [keyword_id |-> 3, search_volume |-> 90, difficulty |-> 12, cpc |-> 1,
      competition |-> 1] >>

InitialSerpRankings ==
  << [keyword_id |-> 3, position |-> 7, url |-> U_bare, domain |-> U_bare,
      title |-> "Rival", is_hoxton |-> FALSE] >>

InitialCompetitorRankings ==
  << [keyword_id |-> 3, competitor_id |-> 1, position |-> 7, url |-> U_bare] >>

SelectError == [code |-> "PGRST301", message |-> "connection refused",
                constraint |-> "", column |-> ""]

\* ------------------------------------------------------------------------
\* State
\* ------------------------------------------------------------------------
VARIABLES
  envApiKey,            \* process.env.API_KEY
  envCreds,             \* DATAFORSEO_LOGIN and DATAFORSEO_PASSWORD are both set
  variant,              \* "inline": the handlers that call fetch themselves;
                        \* "lib": the handlers that go through lib/dataforseo.js
  keywords, competitors, pages,                         \* tables
  keyword_metrics, serp_rankings, competitor_rankings,  \* append-only tables
  nreq,                 \* requests received so far
  pc,                   \* position of the handler in flight
  req,                  \* the request in flight (or the last one)
  keywordsToEnrich, groups, idx,                \* handler locals
  results, serpRecords, competitorRecords,      \* handler locals
  resp,                 \* the response sent for req
  unhandled,            \* the handler's promise rejected without a response
  providerCalls,        \* provider calls made for req, in order
  storeCalls            \* store calls made for req, in order

env == <<envApiKey, envCreds, variant>>
tables == <<keywords, competitors, pages, keyword_metrics, serp_rankings,
            competitor_rankings>>
locals == <<keywordsToEnrich, groups, idx, results, serpRecords,
            competitorRecords>>
KeywordsTable == WithBulk(keywords)

vars == <<env, tables, nreq, pc, req, locals, resp, unhandled, providerCalls,
          storeCalls>>

HeaderKeys == {Undefined, "secret", "wrong"}

Init ==
  /\ envApiKey \in {Undefined, "secret"}
  /\ envCreds \in BOOLEAN
  /\ variant \in {"inline", "lib"}
  /\ keywords = InitialKeywords
  /\ competitors = InitialCompetitors
  /\ pages = InitialPages
  /\ keyword_metrics = InitialMetrics
  /\ serp_rankings = InitialSerpRankings
  /\ competitor_rankings = InitialCompetitorRankings
  /\ nreq = 0
  /\ pc = "idle"
  /\ req = [route |-> "none"]
  /\ keywordsToEnrich = <<>>
  /\ groups = <<>>
  /\ idx = 0
  /\ results = <<>>
  /\ serpRecords = <<>>
  /\ competitorRecords = <<>>
  /\ resp = NoResponse
  /\ unhandled = FALSE
  /\ providerCalls = <<>>
  /\ storeCalls = <<>>

\* a request arrives: the locals of the new handler invocation are fresh
Receive(r) ==
  /\ pc = "idle"
  /\ nreq < MaxRequests
  /\ nreq' = nreq + 1
  /\ req' = r
  /\ UNCHANGED env

\* the handler has returned: its locals are gone and the function instance is
\* ready for the next invocation
Return ==
  /\ pc = "done"
  /\ pc' = "idle"
  /\ req' = [route |-> "none"]
  /\ keywordsToEnrich' = <<>>
  /\ groups' = <<>>
  /\ idx' = 0
  /\ results' = <<>>
  /\ serpRecords' = <<>>
  /\ competitorRecords' = <<>>
  /\ resp' = NoResponse
  /\ unhandled' = FALSE
  /\ providerCalls' = <<>>
  /\ storeCalls' = <<>>
  /\ UNCHANGED <<env, tables, nreq>>

StoreCall(table, op, ok, rows) ==
  [table |-> table, op |-> op, ok |-> ok, rows |-> rows]

\* ------------------------------------------------------------------------
\* POST /api/enrich/keywords
\* ------------------------------------------------------------------------
EnrichKeywordsBodies ==
  { [has_ids |-> FALSE, keyword_ids |-> <<>>, has_keywords |-> FALSE, keywords |-> <<>>],
    [has_ids |-> TRUE, keyword_ids |-> <<>>, has_keywords |-> FALSE, keywords |-> <<>>],
    [has_ids |-> TRUE, keyword_ids |-> <<1, 2, 3>>, has_keywords |-> FALSE, keywords |-> <<>>],
    [has_ids |-> TRUE, keyword_ids |-> <<MissingId, 4>>, has_keywords |-> FALSE, keywords |-> <<>>],
    [has_ids |-> TRUE, keyword_ids |-> <<MissingId>>, has_keywords |-> FALSE, keywords |-> <<>>],
    [has_ids |-> TRUE, keyword_ids |-> Range(1, MAX_KEYWORDS + 1),
     has_keywords |-> FALSE, keywords |-> <<>>],
    [has_ids |-> TRUE, keyword_ids |-> <<3>> \o Range(MissingId, MissingId + MAX_KEYWORDS - 1),
     has_keywords |-> FALSE, keywords |-> <<>>],
    [has_ids |-> FALSE, keyword_ids |-> <<>>, has_keywords |-> TRUE, keywords |-> <<>>],
    [has_ids |-> FALSE, keyword_ids |-> <<>>, has_keywords |-> TRUE,
     keywords |-> << [text |-> T_ISA, country |-> "FR"],
                     [text |-> T_sipp, country |-> Undefined] >>] }

\* variant of byCountry that puts a new country group first
RECURSIVE byCountryNewestFirst(_, _)
byCountryNewestFirst(acc, rest) ==
  IF rest = <<>> THEN acc
  ELSE LET kw == Head(rest)
           country == IF Truthy(kw.country) THEN kw.country ELSE "UK"
           at == {i \in DOMAIN acc : acc[i].country = country}
       IN IF at = {}
            THEN byCountryNewestFirst(<<[country |-> country, kws |-> <<kw>>]>> \o acc,
                                      Tail(rest))
            ELSE byCountryNewestFirst([i \in DOMAIN acc |->
                                         IF i \in at
                                           THEN [acc[i] EXCEPT !.kws = Append(@, kw)]
                                           ELSE acc[i]],
                                      Tail(rest))

\* keywordsToEnrich.reduce(...): the country groups in order of first occurrence
RECURSIVE byCountry(_, _)
byCountry(acc, rest) ==
  IF rest = <<>> THEN acc
  ELSE LET kw == Head(rest)
           country == IF Truthy(kw.country) THEN kw.country ELSE "UK"
           at == {i \in DOMAIN acc : acc[i].country = country}
       IN IF at = {}
            THEN byCountry(Append(acc, [country |-> country, kws |-> <<kw>>]),
                           Tail(rest))
            ELSE byCountry([i \in DOMAIN acc |->
                              IF i \in at
                                THEN [acc[i] EXCEPT !.kws = Append(@, kw)]
                                ELSE acc[i]],
                           Tail(rest))

\* variant of NoneFound that lets an empty working set through
NoneFoundNever(kws) == FALSE

\* keywordsToEnrich.length === 0, keywords.length === 0
NoneFound(kws) == Len(kws) = 0

\* variant of ExceedsLimit with the ceiling one too high
ExceedsLimitOffByOne(kws) == Len(kws) > MAX_KEYWORDS + 1

\* keywordsToEnrich.length > 100
ExceedsLimit(kws) == Len(kws) > MAX_KEYWORDS

\* variant of ExceedsSerpLimit with the ceiling one too high
ExceedsSerpLimitOffByOne(ids) == Len(ids) > MAX_SERP_KEYWORDS + 1

\* keyword_ids.length > 50
ExceedsSerpLimit(ids) == Len(ids) > MAX_SERP_KEYWORDS

\* the handler up to the provider loop: the error to answer with, or the
\* working set, and the store calls made on the way
EnrichKeywordsResolve(apiKey, method, body, dbOk) ==
  LET fail(e, calls) == [failed |-> TRUE, err |-> e, kws |-> <<>>, calls |-> calls]
      select == StoreCall("keywords", "select", dbOk, <<>>)
      checked(kws, calls) ==
        IF NoneFound(kws)
          THEN fail(ValidationError("No keywords found to enrich", NoDetails), calls)
        ELSE IF ExceedsLimit(kws)
          THEN fail(ValidationError("Maximum 100 keywords per request",
                                    [received |-> Len(kws), maximum |-> MAX_KEYWORDS]),
                    calls)
        ELSE [failed |-> FALSE, err |-> NoDetails, kws |-> kws, calls |-> calls]
  IN IF ~verifyApiKey(apiKey, envApiKey) THEN fail(UnauthorizedError, <<>>)
     ELSE IF method # "POST" THEN fail(MethodNotAllowed(method, <<"POST">>), <<>>)
     ELSE IF ~body.has_ids /\ ~body.has_keywords
       THEN fail(ValidationError("Must provide either keyword_ids or keywords array",
                                 NoDetails), <<>>)
     ELSE IF body.has_ids /\ Len(body.keyword_ids) > 0
       THEN IF ~dbOk
              THEN fail(mapSupabaseError(SelectError, "select"), <<select>>)
              ELSE checked(SelectIn(KeywordsTable, body.keyword_ids), <<select>>)
     ELSE IF body.has_keywords /\ Len(body.keywords) > 0
       THEN checked([i \in DOMAIN body.keywords |->
                       [id |-> NullId, keyword_text |-> body.keywords[i].text,
                        country |-> body.keywords[i].country]], <<>>)
     ELSE checked(<<>>, <<>>)

EnrichKeywordsStart ==
  \E apiKey \in HeaderKeys, method \in {"POST", "GET"},
     body \in EnrichKeywordsBodies, dbOk \in BOOLEAN :
    LET r == EnrichKeywordsResolve(apiKey, method, body, dbOk) IN
    /\ Receive([route |-> "enrich/keywords", method |-> method,
                apiKey |-> apiKey, body |-> body])
    /\ unhandled' = FALSE
    /\ storeCalls' = r.calls
    /\ providerCalls' = <<>>
    /\ keywordsToEnrich' = r.kws
    /\ groups' = byCountry(<<>>, r.kws)
    /\ idx' = 1
    /\ results' = <<>>
    /\ serpRecords' = <<>>
    /\ competitorRecords' = <<>>
    /\ IF r.failed
         THEN resp' = error(r.err) /\ pc' = "done"
         ELSE IF r.kws = <<>>
           THEN resp' = success(<<>>, [count |-> 0]) /\ pc' = "done"
         ELSE resp' = NoResponse /\ pc' = "ek_loop"
    /\ UNCHANGED tables

\* variant of OrZero that passes the field on as the provider gave it
OrZeroAsGiven(v) == v

\* result.x || 0
OrZero(v) == IF v = NullNum THEN 0 ELSE v

\* variant of FindKeyword that compares the texts as they are
FindKeywordCaseSensitive(kws, text) ==
  LET hits == {i \in DOMAIN kws : kws[i].keyword_text = text}
  IN IF hits = {} THEN 0 ELSE CHOOSE i \in hits : \A j \in hits : i <= j

\* kws.find(k => k.keyword_text.toLowerCase() === result.keyword.toLowerCase())
\* as the index of the first match, 0 when there is none
FindKeyword(kws, text) ==
  LET hits == {i \in DOMAIN kws :
                 toLowerCase(kws[i].keyword_text) = toLowerCase(text)}
  IN IF hits = {} THEN 0 ELSE CHOOSE i \in hits : \A j \in hits : i <= j

\* keyword && keyword.id
StoresMetric(kws, rec) ==
  LET i == FindKeyword(kws, rec.keyword) IN i # 0 /\ kws[i].id # NullId

MetricRow(kws, rec) ==
  [keyword_id |-> kws[FindKeyword(kws, rec.keyword)].id,
   search_volume |-> OrZero(rec.search_volume),
   difficulty |-> OrZero(rec.keyword_difficulty),
   cpc |-> OrZero(rec.cpc),
   competition |-> OrZero(rec.competition)]

MetricEntry(country, rec) ==
  [keyword |-> rec.keyword, country |-> country,
   search_volume |-> OrZero(rec.search_volume),
   difficulty |-> OrZero(rec.keyword_difficulty),
   cpc |-> OrZero(rec.cpc),
   competition |-> OrZero(rec.competition)]

\* variant of MetricEntries that leaves out the records whose insert failed
MetricEntriesDropFailed(country, records, fails) ==
  LET kept == SelectSeq([j \in DOMAIN records |-> j], LAMBDA j : j \notin fails)
  IN [n \in DOMAIN kept |-> MetricEntry(country, records[kept[n]])]

\* results.push(...) for every record of one group; `fails` are the records
\* whose insert returned an error (logged, nothing else)
MetricEntries(country, records, fails) ==
  [j \in DOMAIN records |-> MetricEntry(country, records[j])]

\* the provider call of one country group as the handler sees it
MetricsOutcome(reply) ==
  IF variant = "inline"
    THEN LET r == fetchDataForSEO(reply) IN
         [failed |-> Truthy(r.error), err |-> ExternalApiError("DataForSEO", r.error),
          records |-> r.results]
    ELSE LET r == dataforseoRequest(reply) IN
         [failed |-> r.threw, err |-> PlainError(r.message),
          records |-> r.result]

CredentialsError ==
  IF variant = "inline"
    THEN ValidationError("DataForSEO credentials not configured", NoDetails)
    ELSE PlainError("DataForSEO credentials not configured")

\* the inserts of one group: one call per record that matches a stored keyword
MetricInserts(kws, records, fails) ==
  LET at == SelectSeq([j \in DOMAIN records |-> j],
                      LAMBDA j : StoresMetric(kws, records[j]))
  IN [n \in DOMAIN at |->
        StoreCall("keyword_metrics", "insert", at[n] \notin fails,
                  <<MetricRow(kws, records[at[n]])>>)]

RECURSIVE InsertedRows(_)
InsertedRows(calls) ==
  IF calls = <<>> THEN <<>>
  ELSE (IF Head(calls).ok /\ Head(calls).op = "insert" THEN Head(calls).rows ELSE <<>>)
       \o InsertedRows(Tail(calls))

\* variant of Insert in which the rows written take the place of the rows
\* the table held
InsertReplacing(table, calls) ==
  IF InsertedRows(calls) = <<>> THEN table ELSE InsertedRows(calls)

\* the table after the insert calls: the rows of the calls that succeeded
\* are added behind the rows it held
Insert(table, calls) == table \o InsertedRows(calls)

EnrichKeywordsGroup ==
  /\ pc = "ek_loop"
  /\ LET g == groups[idx]
         texts == [i \in DOMAIN g.kws |-> g.kws[i].keyword_text]
         locationCode == LocationCode(g.country)
     IN IF ~envCreds
          THEN /\ resp' = error(CredentialsError)
               /\ pc' = "done"
               /\ UNCHANGED <<idx, results, providerCalls, storeCalls, keyword_metrics>>
          ELSE \E reply \in MetricsReplies :
                 LET o == MetricsOutcome(reply)
                     call == [api |-> "search_volume", keywords |-> texts,
                              location_code |-> locationCode,
                              country |-> g.country, reply |-> reply]
                 IN /\ providerCalls' = Append(providerCalls, call)
                    /\ IF o.failed
                         THEN /\ resp' = error(o.err)
                              /\ pc' = "done"
                              /\ UNCHANGED <<idx, results, storeCalls, keyword_metrics>>
                         ELSE \E fails \in SUBSET {j \in DOMAIN o.records :
                                                     StoresMetric(g.kws, o.records[j])} :
                                LET ins == MetricInserts(g.kws, o.records, fails)
                                    out == results \o MetricEntries(g.country, o.records, fails)
                                IN /\ storeCalls' = storeCalls \o ins
                                   /\ keyword_metrics' = Insert(keyword_metrics, ins)
                                   /\ results' = out
                                   /\ IF idx = Len(groups)
                                        THEN /\ resp' = success(out, [count |-> Len(out)])
                                             /\ pc' = "done"
                                             /\ idx' = idx
                                        ELSE /\ resp' = NoResponse
                                             /\ pc' = "ek_loop"
                                             /\ idx' = idx + 1
  /\ UNCHANGED <<env, nreq, req, unhandled, keywordsToEnrich, groups, serpRecords,
                 competitorRecords, keywords, competitors, pages, serp_rankings,
                 competitor_rankings>>

\* ------------------------------------------------------------------------
\* POST /api/enrich/serp
\* ------------------------------------------------------------------------
StartsWith(s, prefix) ==
  Len(s) >= Len(prefix) /\ SubSeq(s, 1, Len(prefix)) = prefix

\* s.includes(sub)
Includes(s, sub) ==
  \E i \in 1..(Len(s) - Len(sub) + 1) : SubSeq(s, i, i + Len(sub) - 1) = sub

\* new URL(url).hostname for an http(s) URL: the lower-cased text between
\* "//" and the next "/", "?", "#" or ":"; <<>> when URL() throws
Hostname(url) ==
  LET low == toLowerCase(url)
      from == IF StartsWith(low, <<"h", "t", "t", "p", "s", ":", "/", "/">>) THEN 9
              ELSE IF StartsWith(low, <<"h", "t", "t", "p", ":", "/", "/">>) THEN 8
              ELSE 0
      stops == {i \in from..Len(low) : low[i] \in {"/", "?", "#", ":"}}
      to == IF stops = {} THEN Len(low)
            ELSE (CHOOSE i \in stops : \A j \in stops : i <= j) - 1
  IN IF from = 0 THEN <<>> ELSE SubSeq(low, from, to)

\* variant of extractDomain that keeps a leading "www."
extractDomainKeepWww(url) ==
  IF Hostname(url) = <<>> THEN url ELSE Hostname(url)

\* extractDomain: hostname.replace(/^www\./, ''), or the url itself when
\* URL() throws
extractDomain(url) ==
  LET host == Hostname(url) IN
  IF host = <<>> THEN url
  ELSE IF StartsWith(host, <<"w", "w", "w", ".">>) THEN SubSeq(host, 5, Len(host))
  ELSE host

\* items of tasks[0].result[0].items, as the provider returns them
I_hoxton == [type |-> "organic", rank_absolute |-> 1, url |-> U_hoxton, title |-> "Hoxton"]
I_ad == [type |-> "paid", rank_absolute |-> 2, url |-> U_rival, title |-> "Ad"]
I_rival == [type |-> "organic", rank_absolute |-> 3, url |-> U_rival, title |-> "Rival"]
I_blog == [type |-> "organic", rank_absolute |-> 4, url |-> U_blog, title |-> "Blog"]
I_raw == [type |-> "organic", rank_absolute |-> 5, url |-> U_raw, title |-> "Raw"]

\* the result page of a keyword: the provider answers a search for "isa" with
\* the page that holds the site's own /isa url, any other search with a page
\* that does not
SerpResult(text) ==
  IF toLowerCase(text) = T_isa THEN <<I_hoxton, I_ad, I_rival>> ELSE <<I_blog, I_raw>>

SerpFailedReplies ==
  {r \in FailedReplies : r.transport = "network" \/ r.status_code = STATUS_OK}

SerpReplies(text) ==
  SerpFailedReplies \cup { JsonReply(STATUS_OK, "Ok.", STATUS_OK, SerpResult(text)) }

\* items.filter(item => item.type === 'organic').map(...)
Organic(items) ==
  LET keep == SelectSeq(items, LAMBDA it : it.type = "organic")
  IN [i \in DOMAIN keep |->
        [rank_absolute |-> keep[i].rank_absolute, url |-> keep[i].url,
         title |-> keep[i].title]]

\* api/enrich/serp.js fetchSERP, after the credentials check
fetchSERP(reply) ==
  IF reply.transport # "ok"
    THEN [error |-> reply.errmsg, items |-> <<>>]
  ELSE IF reply.status_code # STATUS_OK
    THEN [error |-> IF Truthy(reply.status_message) THEN reply.status_message
                    ELSE "SERP API request failed",
          items |-> <<>>]
  ELSE [error |-> Undefined, items |-> Organic(reply.result)]

\* lib/dataforseo.js getSerpResults
getSerpResults(reply) ==
  LET r == dataforseoRequest(reply) IN
  [threw |-> r.threw, message |-> r.message, items |-> Organic(r.result)]

EnrichSerpBodies ==
  { [has_ids |-> FALSE, is_array |-> FALSE, keyword_ids |-> <<>>],
    [has_ids |-> TRUE, is_array |-> FALSE, keyword_ids |-> <<>>],
    [has_ids |-> TRUE, is_array |-> TRUE, keyword_ids |-> <<>>],
    [has_ids |-> TRUE, is_array |-> TRUE, keyword_ids |-> <<3, 2, 1>>],
    [has_ids |-> TRUE, is_array |-> TRUE, keyword_ids |-> <<MissingId>>],
    [has_ids |-> TRUE, is_array |-> TRUE, keyword_ids |-> Range(1, MAX_SERP_KEYWORDS + 1)],
    [has_ids |-> TRUE, is_array |-> TRUE,
     keyword_ids |-> <<4>> \o Range(MissingId, MissingId + MAX_SERP_KEYWORDS - 2)] }

MissingFields(fields) ==
  ValidationError("Missing required field(s)", [missing |-> fields])

InvalidType(name, expected, received) ==
  ValidationError("Invalid type",
                  [field |-> name, expected |-> expected, received |-> received])

\* the handler up to the keyword loop
EnrichSerpResolve(apiKey, method, body, dbOk, compOk) ==
  LET fail(e, calls) == [failed |-> TRUE, err |-> e, kws |-> <<>>, calls |-> calls]
      select == StoreCall("keywords", "select", dbOk, <<>>)
      found == SelectIn(KeywordsTable, body.keyword_ids)
  IN IF ~verifyApiKey(apiKey, envApiKey) THEN fail(UnauthorizedError, <<>>)
     ELSE IF method # "POST" THEN fail(MethodNotAllowed(method, <<"POST">>), <<>>)
     ELSE IF ~body.has_ids THEN fail(MissingFields(<<"keyword_ids">>), <<>>)
     ELSE IF ~body.is_array
       THEN fail(InvalidType("keyword_ids", "array", "string"), <<>>)
     ELSE IF Len(body.keyword_ids) = 0
       THEN fail(ValidationError("keyword_ids array cannot be empty", NoDetails), <<>>)
     ELSE IF ExceedsSerpLimit(body.keyword_ids)
       THEN fail(ValidationError("Maximum 50 keywords per SERP request",
                                 [received |-> Len(body.keyword_ids),
                                  maximum |-> MAX_SERP_KEYWORDS]), <<>>)
     ELSE IF ~dbOk THEN fail(mapSupabaseError(SelectError, "select"), <<select>>)
     ELSE IF NoneFound(found)
       THEN fail(ValidationError("No keywords found with provided IDs", NoDetails),
                 <<select>>)
     ELSE [failed |-> FALSE, err |-> NoDetails, kws |-> found,
           calls |-> <<select, StoreCall("competitors", "select", compOk, <<>>)>>]

EnrichSerpStart ==
  \E apiKey \in HeaderKeys, method \in {"POST", "GET"},
     body \in EnrichSerpBodies, dbOk \in BOOLEAN, compOk \in BOOLEAN :
    LET r == EnrichSerpResolve(apiKey, method, body, dbOk, compOk) IN
    /\ Receive([route |-> "enrich/serp", method |-> method,
                apiKey |-> apiKey, body |-> body])
    /\ unhandled' = FALSE
    /\ storeCalls' = r.calls
    /\ providerCalls' = <<>>
    /\ keywordsToEnrich' = r.kws
    /\ groups' = <<>>
    /\ idx' = 1
    /\ results' = <<>>
    /\ serpRecords' = <<>>
    /\ competitorRecords' = <<>>
    /\ IF r.failed
         THEN resp' = error(r.err) /\ pc' = "done"
         ELSE IF r.kws = <<>>
           THEN resp' = NoResponse /\ pc' = "es_persist"
         ELSE resp' = NoResponse /\ pc' = "es_loop"
    /\ UNCHANGED tables

\* (competitors || []): the rows the competitors select of this request
\* returned, none when it returned an error
competitorDomains ==
  IF Len(storeCalls) >= 2 /\ storeCalls[2].table = "competitors" /\ storeCalls[2].ok
    THEN competitors ELSE <<>>

\* competitorDomains.get(domain): the id of the competitor, 0 when absent
CompetitorId(domain) ==
  LET hits == {i \in DOMAIN competitorDomains : competitorDomains[i].domain = domain}
  IN IF hits = {} THEN 0
     ELSE competitorDomains[CHOOSE i \in hits : \A j \in hits : i >= j].id

SerpRecord(keyword, item) ==
  [keyword_id |-> keyword.id, position |-> item.rank_absolute, url |-> item.url,
   domain |-> extractDomain(item.url), title |-> item.title,
   is_hoxton |-> Includes(extractDomain(item.url), HOXTON_DOMAIN)]

CompetitorRecord(keyword, item) ==
  [keyword_id |-> keyword.id,
   competitor_id |-> CompetitorId(extractDomain(item.url)),
   position |-> item.rank_absolute, url |-> item.url]

\* items.find(i => extractDomain(i.url).includes(HOXTON_DOMAIN))?.rank_absolute || null
HoxtonPosition(items) ==
  LET hits == {i \in DOMAIN items : Includes(extractDomain(items[i].url), HOXTON_DOMAIN)}
  IN IF hits = {} THEN 0
     ELSE items[CHOOSE i \in hits : \A j \in hits : i <= j].rank_absolute

SerpSummary(keyword, items) ==
  [keyword |-> keyword.keyword_text, country |-> keyword.country,
   results_count |-> Len(items), hoxton_position |-> HoxtonPosition(items),
   error |-> Undefined]

SerpErrorEntry(keyword, message) ==
  [keyword |-> keyword.keyword_text, country |-> Undefined,
   results_count |-> NullNum, hoxton_position |-> NullNum, error |-> message]

\* the provider call of one keyword as the handler sees it
SerpOutcome(reply) ==
  IF variant = "inline"
    THEN LET r == fetchSERP(reply) IN
         [failed |-> Truthy(r.error), message |-> r.error, items |-> r.items]
    ELSE LET r == getSerpResults(reply) IN
         [failed |-> r.threw, message |-> r.message, items |-> r.items]

\* variant of NextKeyword that leaves the loop when the call failed
NextKeywordUnlessFailed(i, n, failed) ==
  IF i = n \/ failed THEN [pc |-> "es_persist", idx |-> i]
  ELSE [pc |-> "es_loop", idx |-> i + 1]

\* for (const keyword of keywords): after keyword i of n the loop goes on to
\* keyword i + 1, after `continue` as after a full iteration
NextKeyword(i, n, failed) ==
  IF i = n THEN [pc |-> "es_persist", idx |-> i]
  ELSE [pc |-> "es_loop", idx |-> i + 1]

EnrichSerpKeyword ==
  /\ pc = "es_loop"
  /\ LET keyword == keywordsToEnrich[idx]
         locationCode == LocationCode(keyword.country)
         advance(failed) ==
           LET to == NextKeyword(idx, Len(keywordsToEnrich), failed)
           IN pc' = to.pc /\ idx' = to.idx
     IN IF ~envCreds /\ variant = "inline"
          THEN /\ resp' = error(CredentialsError)
               /\ pc' = "done"
               /\ UNCHANGED <<idx, results, serpRecords, competitorRecords,
                              providerCalls>>
        ELSE IF ~envCreds
          THEN /\ results' = Append(results,
                                    SerpErrorEntry(keyword, CredentialsError.message))
               /\ advance(TRUE)
               /\ resp' = NoResponse
               /\ UNCHANGED <<serpRecords, competitorRecords, providerCalls>>
        ELSE \E reply \in SerpReplies(keyword.keyword_text) :
               LET o == SerpOutcome(reply)
                   call == [api |-> "serp", keywords |-> <<keyword.keyword_text>>,
                            location_code |-> locationCode,
                            country |-> keyword.country, reply |-> reply]
                   hits == SelectSeq(o.items,
                                     LAMBDA it : CompetitorId(extractDomain(it.url)) # 0)
               IN /\ providerCalls' = Append(providerCalls, call)
                  /\ resp' = NoResponse
                  /\ advance(o.failed)
                  /\ IF o.failed
                       THEN /\ results' = Append(results,
                                                 SerpErrorEntry(keyword, o.message))
                            /\ UNCHANGED <<serpRecords, competitorRecords>>
                       ELSE /\ serpRecords' =
                                 serpRecords \o [i \in DOMAIN o.items |->
                                                   SerpRecord(keyword, o.items[i])]
                            /\ competitorRecords' =
                                 competitorRecords \o [i \in DOMAIN hits |->
                                                         CompetitorRecord(keyword, hits[i])]
                            /\ results' = Append(results, SerpSummary(keyword, o.items))
  /\ UNCHANGED <<env, tables, nreq, req, unhandled, keywordsToEnrich, groups, storeCalls>>

\* variant of SerpResponse that fails the request when a write failed
SerpResponseFailing(serpOk, compOk) ==
  IF serpOk /\ compOk
    THEN success(results, [keywords_processed |-> Len(results),
                           serp_records |-> Len(serpRecords),
                           competitor_records |-> Len(competitorRecords)])
    ELSE error(mapSupabaseError(StoreError, "insert"))

\* variant of SerpResponse whose serp_records counts the entries of the result
\* list
SerpResponseCountingEntries(serpOk, compOk) ==
  success(results, [keywords_processed |-> Len(results),
                    serp_records |-> Len(results),
                    competitor_records |-> Len(competitorRecords)])

\* success(res, results, {...}) after the two writes, whatever they returned
SerpResponse(serpOk, compOk) ==
  success(results, [keywords_processed |-> Len(results),
                    serp_records |-> Len(serpRecords),
                    competitor_records |-> Len(competitorRecords)])

\* variant of SerpWrites that writes the competitor rows first
SerpWritesCompetitorFirst(serpWrite, compWrite) == compWrite \o serpWrite

\* the order of the two batched writes: serp_rankings, then competitor_rankings
SerpWrites(serpWrite, compWrite) == serpWrite \o compWrite

\* the two batched writes and the response
EnrichSerpPersist ==
  /\ pc = "es_persist"
  /\ \E serpOk \in BOOLEAN, compOk \in BOOLEAN :
       LET w1 == IF Len(serpRecords) > 0
                   THEN <<StoreCall("serp_rankings", "insert", serpOk, serpRecords)>>
                   ELSE <<>>
           w2 == IF Len(competitorRecords) > 0
                   THEN <<StoreCall("competitor_rankings", "insert", compOk,
                                    competitorRecords)>>
                   ELSE <<>>
       IN /\ storeCalls' = storeCalls \o SerpWrites(w1, w2)
          /\ serp_rankings' = Insert(serp_rankings, w1)
          /\ competitor_rankings' = Insert(competitor_rankings, w2)
          /\ resp' = SerpResponse(serpOk, compOk)
  /\ pc' = "done"
  /\ UNCHANGED <<env, nreq, req, unhandled, locals, providerCalls, keywords,
                 competitors, pages, keyword_metrics>>

\* ------------------------------------------------------------------------
\* Handlers that finish in one step: what they answer and what they write
\* ------------------------------------------------------------------------
\* the handler answered with r after the store calls `calls`
Answered(r, calls) == [resp |-> r, unhandled |-> FALSE, calls |-> calls]

\* an error thrown inside try { } of the handler: caught, error(res, err)
Caught(err, calls) == Answered(error(err), calls)

\* an error thrown by a sub-handler whose promise the handler returns without
\* awaiting it: the catch block does not run and no response is written
Escaped(calls) == [resp |-> NoResponse, unhandled |-> TRUE, calls |-> calls]

OneStep(r, o) ==
  /\ Receive(r)
  /\ resp' = o.resp
  /\ unhandled' = o.unhandled
  /\ storeCalls' = o.calls
  /\ providerCalls' = <<>>
  /\ pc' = "done"
  /\ keywordsToEnrich' = <<>>
  /\ groups' = <<>>
  /\ idx' = 0
  /\ results' = <<>>
  /\ serpRecords' = <<>>
  /\ competitorRecords' = <<>>

\* ------------------------------------------------------------------------
\* GET /api/health
\* ------------------------------------------------------------------------
\* 'Hoxton SEO Platform is running'
M_running ==
  <<
    "H", "o", "x", "t", "o", "n", " ", "S", "E", "O", " ", "P", "l", "a",
    "t", "f", "o", "r", "m", " ", "i", "s", " ", "r", "u", "n", "n", "i",
    "n", "g"
  >>

\* variant of HealthBody whose message stops after 'Hoxton SEO Platform'
HealthBodyShort ==
  [success(<<>>, NoDetails) EXCEPT !.message = SubSeq(M_running, 1, 19)]

\* { success: true, message, timestamp }
HealthBody == [success(<<>>, NoDetails) EXCEPT !.message = M_running]

Health ==
  \E apiKey \in HeaderKeys :
    /\ OneStep([route |-> "health", method |-> "GET", apiKey |-> apiKey],
               Answered(HealthBody, <<>>))
    /\ UNCHANGED tables

\* ------------------------------------------------------------------------
\* GET, POST /api/pages
\* ------------------------------------------------------------------------
PageBodies ==
  { [page_name |-> "Calculator", url |-> "/tools/calc", cluster |-> "Tools",
     level |-> NullNum],
    [page_name |-> "Home again", url |-> "/", cluster |-> "Strategy", level |-> 1],
    [page_name |-> "No cluster", url |-> "/x", cluster |-> Undefined,
     level |-> NullNum] }

PageQueries ==
  { [cluster |-> Undefined, level |-> NullNum], [cluster |-> "Strategy", level |-> 1] }

ClusterRank(c) == IF c = "Strategy" THEN 1 ELSE 2

\* .order('cluster').order('level') with the optional filters
PagesSelect(query) ==
  SortSeq(SelectSeq(pages, LAMBDA row :
                      /\ Truthy(query.cluster) => row.cluster = query.cluster
                      /\ query.level # NullNum => row.level = query.level),
          LAMBDA a, b : \/ ClusterRank(a.cluster) < ClusterRank(b.cluster)
                        \/ /\ a.cluster = b.cluster
                           /\ a.level < b.level)

PageRow(id, page) ==
  [id |-> id, page_name |-> page.page_name, url |-> page.url,
   cluster |-> page.cluster,
   level |-> IF page.level = NullNum THEN 2 ELSE page.level]

UrlTaken(url) == \E i \in DOMAIN pages : pages[i].url = url

PagesHandler(apiKey, method, query, body, dbOk) ==
  IF ~verifyApiKey(apiKey, envApiKey)
    THEN [out |-> Caught(UnauthorizedError, <<>>), table |-> pages]
  ELSE IF method = "GET"
    THEN [out |-> IF dbOk
                    THEN Answered(success(PagesSelect(query),
                                          [count |-> Len(PagesSelect(query))]),
                                  <<StoreCall("pages", "select", TRUE, <<>>)>>)
                    ELSE Escaped(<<StoreCall("pages", "select", FALSE, <<>>)>>),
          table |-> pages]
  ELSE IF method = "POST"
    THEN IF ~Truthy(body.page_name) \/ ~Truthy(body.url) \/ ~Truthy(body.cluster)
           THEN [out |-> Escaped(<<>>), table |-> pages]
           ELSE LET row == PageRow(MaxId(pages) + 1, body)
                    ok == dbOk /\ ~UrlTaken(body.url)
                    call == StoreCall("pages", "insert", ok, <<row>>)
                IN IF ok
                     THEN [out |-> Answered(success(<<row>>, NoDetails), <<call>>),
                           table |-> Append(pages, row)]
                     ELSE [out |-> Escaped(<<call>>), table |-> pages]
  ELSE [out |-> Caught(MethodNotAllowed(method, <<"GET", "POST">>), <<>>),
        table |-> pages]

PagesIndex ==
  \E apiKey \in HeaderKeys, method \in {"GET", "POST", "DELETE"},
     query \in PageQueries, body \in PageBodies, dbOk \in BOOLEAN :
    LET h == PagesHandler(apiKey, method, query, body, dbOk) IN
    /\ OneStep([route |-> "pages", method |-> method, apiKey |-> apiKey,
                query |-> query, body |-> body], h.out)
    /\ pages' = h.table
    /\ UNCHANGED <<keywords, competitors, keyword_metrics, serp_rankings,
                   competitor_rankings>>

\* ------------------------------------------------------------------------
\* POST /api/pages/import
\* ------------------------------------------------------------------------
ImportBodies ==
  LET new == [page_name |-> "Calculator", url |-> "/tools/calc",
              cluster |-> "Tools", level |-> NullNum]
      home == [page_name |-> "Home 2", url |-> "/", cluster |-> "Strategy",
               level |-> NullNum]
      bad == [page_name |-> "No cluster", url |-> "/x", cluster |-> Undefined,
              level |-> NullNum]
  IN { [has_pages |-> FALSE, is_array |-> FALSE, pages |-> <<>>],
       [has_pages |-> TRUE, is_array |-> FALSE, pages |-> <<>>],
       [has_pages |-> TRUE, is_array |-> TRUE, pages |-> <<>>],
       [has_pages |-> TRUE, is_array |-> TRUE, pages |-> <<new, home>>],
       [has_pages |-> TRUE, is_array |-> TRUE, pages |-> <<new, new>>],
       [has_pages |-> TRUE, is_array |-> TRUE, pages |-> <<new, bad>>] }

\* the conflict key of a row: 'url' for pages, 'keyword_text,country' for keywords
ConflictKey(on, row) ==
  IF on = "url" THEN <<row.url>> ELSE <<row.keyword_text, row.country>>

\* upsert(rows, { onConflict }): a row whose key is stored is updated in
\* place (it keeps its id), any other row is appended with a fresh id
RECURSIVE Upsert(_, _, _)
Upsert(table, rows, on) ==
  IF rows = <<>> THEN table
  ELSE LET row == Head(rows)
           at == {i \in DOMAIN table : ConflictKey(on, table[i]) = ConflictKey(on, row)}
       IN Upsert(IF at = {}
                   THEN Append(table, [row EXCEPT !.id = MaxId(table) + 1])
                   ELSE [i \in DOMAIN table |->
                           IF i \in at THEN [row EXCEPT !.id = table[i].id]
                           ELSE table[i]],
                 Tail(rows), on)

\* two rows of one upsert hit the same conflict key
KeyTwice(rows, on) ==
  \E i, j \in DOMAIN rows :
    i < j /\ ConflictKey(on, rows[i]) = ConflictKey(on, rows[j])

\* .select() after the upsert: the stored rows of the upserted keys
Upserted(table, rows, on) ==
  [i \in DOMAIN rows |->
     table[CHOOSE k \in DOMAIN table :
             ConflictKey(on, table[k]) = ConflictKey(on, rows[i])]]

ImportHandler(apiKey, method, body, dbOk) ==
  LET keep(o) == [out |-> o, table |-> pages]
      missing == {i \in DOMAIN body.pages :
                    \/ ~Truthy(body.pages[i].page_name)
                    \/ ~Truthy(body.pages[i].url)
                    \/ ~Truthy(body.pages[i].cluster)}
      prepared == [i \in DOMAIN body.pages |-> PageRow(0, body.pages[i])]
      dberr == IF KeyTwice(prepared, "url") THEN CardinalityViolation
               ELSE IF ~dbOk THEN StoreError ELSE NoError
      after == Upsert(pages, prepared, "url")
      call == StoreCall("pages", "upsert", dberr = NoError, prepared)
  IN IF ~verifyApiKey(apiKey, envApiKey) THEN keep(Caught(UnauthorizedError, <<>>))
     ELSE IF method # "POST"
       THEN keep(Caught(MethodNotAllowed(method, <<"POST">>), <<>>))
     ELSE IF ~body.has_pages THEN keep(Caught(MissingFields(<<"pages">>), <<>>))
     ELSE IF ~body.is_array
       THEN keep(Caught(InvalidType("pages", "array", "string"), <<>>))
     ELSE IF Len(body.pages) = 0
       THEN keep(Caught(ValidationError("Pages array cannot be empty", NoDetails), <<>>))
     ELSE IF missing # {}
       THEN keep(Caught(ValidationError("Page missing required field",
                                        [index |-> (CHOOSE i \in missing :
                                                      \A j \in missing : i <= j) - 1]),
                        <<>>))
     ELSE IF dberr # NoError
       THEN keep(Caught(mapSupabaseError(dberr, "upsert"), <<call>>))
     ELSE [out |-> Answered(success(Upserted(after, prepared, "url"),
                                    [count |-> Len(prepared)]), <<call>>),
           table |-> after]

PagesImport ==
  \E apiKey \in HeaderKeys, method \in {"POST", "GET"},
     body \in ImportBodies, dbOk \in BOOLEAN :
    LET h == ImportHandler(apiKey, method, body, dbOk) IN
    /\ OneStep([route |-> "pages/import", method |-> method, apiKey |-> apiKey,
                body |-> body], h.out)
    /\ pages' = h.table
    /\ UNCHANGED <<keywords, competitors, keyword_metrics, serp_rankings,
                   competitor_rankings>>

\* ------------------------------------------------------------------------
\* GET /api/keywords
\* ------------------------------------------------------------------------
\* String.prototype.toUpperCase on the country texts that requests carry
toUpperCase(c) ==
  CASE c = "uk" -> "UK" [] c = "us" -> "US" [] c = "fr" -> "FR" [] OTHER -> c

KeywordQueries ==
  { [country |-> Undefined, cluster |-> Undefined, page_id |-> NullId,
     limit |-> NullNum, offset |-> NullNum],
    [country |-> "us", cluster |-> Undefined, page_id |-> NullId,
     limit |-> 2, offset |-> 0] }

Reverse(s) == [i \in DOMAIN s |-> s[Len(s) + 1 - i]]

\* .order('created_at', { ascending: false }).range(offset, offset + limit - 1)
\* with the optional filters; rows are stored in order of creation
KeywordsSelect(query) ==
  LET limit == IF query.limit = NullNum THEN 100 ELSE query.limit
      offset == IF query.offset = NullNum THEN 0 ELSE query.offset
      rows == SelectSeq(Reverse(KeywordsTable), LAMBDA row :
                /\ Truthy(query.country) => row.country = toUpperCase(query.country)
                /\ Truthy(query.cluster) => row.cluster = query.cluster
                /\ query.page_id # NullId => row.page_id = query.page_id)
      last == IF offset + limit < Len(rows) THEN offset + limit ELSE Len(rows)
  IN SubSeq(rows, offset + 1, last)

KeywordsHandler(apiKey, method, query, dbOk) ==
  LET call == StoreCall("keywords", "select", dbOk, <<>>) IN
  IF ~verifyApiKey(apiKey, envApiKey) THEN Caught(UnauthorizedError, <<>>)
  ELSE IF method # "GET" THEN Caught(MethodNotAllowed(method, <<"GET">>), <<>>)
  ELSE IF ~dbOk THEN Caught(PlainError(StoreError.message), <<call>>)
  ELSE Answered(success(KeywordsSelect(query),
                        [count |-> Len(KeywordsSelect(query))]), <<call>>)

KeywordsIndex ==
  \E apiKey \in HeaderKeys, method \in {"GET", "POST"},
     query \in KeywordQueries, dbOk \in BOOLEAN :
    /\ OneStep([route |-> "keywords", method |-> method, apiKey |-> apiKey,
                query |-> query], KeywordsHandler(apiKey, method, query, dbOk))
    /\ UNCHANGED tables

\* ------------------------------------------------------------------------
\* POST /api/keywords/batch
\* ------------------------------------------------------------------------
RECURSIVE trimStart(_)
trimStart(s) == IF s # <<>> /\ Head(s) = " " THEN trimStart(Tail(s)) ELSE s

RECURSIVE trimEnd(_)
trimEnd(s) ==
  IF s # <<>> /\ s[Len(s)] = " " THEN trimEnd(SubSeq(s, 1, Len(s) - 1)) ELSE s

trim(s) == trimEnd(trimStart(s))

Str(text) == [is_string |-> TRUE, text |-> text]

BatchBody(kws, country) ==
  [has_keywords |-> TRUE, is_array |-> TRUE, keywords |-> kws,
   has_country |-> TRUE, country_is_string |-> TRUE, country |-> country,
   cluster |-> "Tools", page_id |-> NullId]

BatchBodies ==
  { BatchBody(<<Str(<<" ">> \o T_ISA \o <<" ">>), Str(T_bond)>>, "uk"),
    BatchBody(<<Str(T_isa), Str(T_ISA)>>, "UK"),
    BatchBody(<<Str(T_sipp)>>, "fr"),
    BatchBody(<<>>, "UK"),
    BatchBody(<<Str(T_sipp), [is_string |-> FALSE, text |-> <<>>]>>, "US"),
    BatchBody([i \in 1..(MAX_BATCH + 1) |-> Str(T_isa)], "UK"),
    [BatchBody(<<Str(T_sipp)>>, "UK") EXCEPT !.page_id = MissingId],
    [BatchBody(<<Str(T_sipp)>>, "UK") EXCEPT !.country_is_string = FALSE],
    [BatchBody(<<Str(T_sipp)>>, "UK") EXCEPT !.is_array = FALSE],
    [BatchBody(<<Str(T_sipp)>>, "UK") EXCEPT !.has_country = FALSE],
    [BatchBody(<<>>, "UK") EXCEPT !.has_country = FALSE, !.has_keywords = FALSE] }

InSeq(v, s) == \E i \in DOMAIN s : s[i] = v

BatchHandler(apiKey, method, body, dbOk) ==
  LET keep(o) == [out |-> o, table |-> KeywordsTable]
      missing == (IF body.has_keywords THEN <<>> ELSE <<"keywords">>)
                 \o (IF body.has_country THEN <<>> ELSE <<"country">>)
      prepared == [i \in DOMAIN body.keywords |->
                     [id |-> NullId,
                      keyword_text |-> toLowerCase(trim(body.keywords[i].text)),
                      country |-> toUpperCase(body.country),
                      cluster |-> body.cluster, page_id |-> body.page_id]]
      dberr == IF KeyTwice(prepared, "keyword_text,country") THEN CardinalityViolation
               ELSE IF /\ body.page_id # NullId
                       /\ ~\E i \in DOMAIN pages : pages[i].id = body.page_id
                 THEN ForeignKeyViolation("keywords_page_id_fkey")
               ELSE IF ~dbOk THEN StoreError ELSE NoError
      after == Upsert(KeywordsTable, prepared, "keyword_text,country")
      call == StoreCall("keywords", "upsert", dberr = NoError, prepared)
  IN IF ~verifyApiKey(apiKey, envApiKey) THEN keep(Caught(UnauthorizedError, <<>>))
     ELSE IF method # "POST"
       THEN keep(Caught(MethodNotAllowed(method, <<"POST">>), <<>>))
     ELSE IF missing # <<>> THEN keep(Caught(MissingFields(missing), <<>>))
     ELSE IF ~body.is_array
       THEN keep(Caught(InvalidType("keywords", "array", "string"), <<>>))
     ELSE IF ~body.country_is_string
       THEN keep(Caught(PlainError("country.toUpperCase is not a function"), <<>>))
     ELSE IF ~InSeq(toUpperCase(body.country), VALID_COUNTRIES)
       THEN keep(Caught(ValidationError("Invalid value for country",
                                        [field |-> "country",
                                         received |-> toUpperCase(body.country)]),
                        <<>>))
     ELSE IF Len(body.keywords) = 0
       THEN keep(Caught(ValidationError("Keywords array cannot be empty", NoDetails),
                        <<>>))
     ELSE IF Len(body.keywords) > MAX_BATCH
       THEN keep(Caught(ValidationError("Maximum 1000 keywords per batch",
                                        [received |-> Len(body.keywords),
                                         maximum |-> MAX_BATCH]), <<>>))
     ELSE IF \E i \in DOMAIN body.keywords : ~body.keywords[i].is_string
       THEN keep(Caught(PlainError("kw.trim is not a function"), <<>>))
     ELSE IF dberr # NoError
       THEN keep(Caught(mapSupabaseError(dberr, "upsert"), <<call>>))
     ELSE [out |-> Answered(success(Upserted(after, prepared, "keyword_text,country"),
                                    [count |-> Len(prepared)]), <<call>>),
           table |-> after]

KeywordsBatch ==
  \E apiKey \in HeaderKeys, method \in {"POST", "GET"},
     body \in BatchBodies, dbOk \in BOOLEAN :
    LET h == BatchHandler(apiKey, method, body, dbOk) IN
    /\ OneStep([route |-> "keywords/batch", method |-> method, apiKey |-> apiKey,
                body |-> body], h.out)
    /\ keywords' = WithoutBulk(h.table)
    /\ UNCHANGED <<pages, competitors, keyword_metrics, serp_rankings,
                   competitor_rankings>>

\* ------------------------------------------------------------------------
\* GET, POST /api/competitors
\* ------------------------------------------------------------------------
CompetitorBodies ==
  { [has_domain |-> TRUE, domain |-> U_rival, name |-> "Rival again"],
    [has_domain |-> TRUE, domain |-> U_hoxton, name |-> "Hoxton"],
    [has_domain |-> TRUE, domain |-> U_shout, name |-> "Other"],
    [has_domain |-> TRUE, domain |-> U_blog, name |-> Undefined],
    [has_domain |-> FALSE, domain |-> <<>>, name |-> "Nobody"] }

RECURSIVE stripTrailingSlashes(_)
stripTrailingSlashes(s) ==
  IF s # <<>> /\ s[Len(s)] = "/"
    THEN stripTrailingSlashes(SubSeq(s, 1, Len(s) - 1))
    ELSE s

\* domain.replace(/^https?:\/\//, '').replace(/\/+$/, '').toLowerCase()
cleanDomain(domain) ==
  LET noScheme ==
        IF StartsWith(domain, <<"h", "t", "t", "p", "s", ":", "/", "/">>)
          THEN SubSeq(domain, 9, Len(domain))
        ELSE IF StartsWith(domain, <<"h", "t", "t", "p", ":", "/", "/">>)
          THEN SubSeq(domain, 8, Len(domain))
        ELSE domain
  IN toLowerCase(stripTrailingSlashes(noScheme))

NameRank(n) == CASE n = "Hoxton" -> 1 [] n = "Rival" -> 2 [] OTHER -> 3

CompetitorsHandler(apiKey, method, body, dbOk) ==
  LET keep(o) == [out |-> o, table |-> competitors]
      row == [id |-> MaxId(competitors) + 1, domain |-> cleanDomain(body.domain),
              name |-> body.name]
      ok == dbOk /\ ~\E i \in DOMAIN competitors : competitors[i].domain = row.domain
      call == StoreCall("competitors", "insert", ok, <<row>>)
      listed == SortSeq(competitors, LAMBDA a, b : NameRank(a.name) < NameRank(b.name))
  IN IF ~verifyApiKey(apiKey, envApiKey) THEN keep(Caught(UnauthorizedError, <<>>))
     ELSE IF method = "GET"
       THEN keep(IF dbOk
                   THEN Answered(success(listed, [count |-> Len(listed)]),
                                 <<StoreCall("competitors", "select", TRUE, <<>>)>>)
                   ELSE Escaped(<<StoreCall("competitors", "select", FALSE, <<>>)>>))
     ELSE IF method = "POST"
       THEN IF ~body.has_domain \/ body.name = Undefined
              THEN keep(Escaped(<<>>))
            ELSE IF ok
              THEN [out |-> Answered(success(<<row>>, NoDetails), <<call>>),
                    table |-> Append(competitors, row)]
            ELSE keep(Escaped(<<call>>))
     ELSE keep(Caught(MethodNotAllowed(method, <<"GET", "POST">>), <<>>))

CompetitorsIndex ==
  \E apiKey \in HeaderKeys, method \in {"GET", "POST", "DELETE"},
     body \in CompetitorBodies, dbOk \in BOOLEAN :
    LET h == CompetitorsHandler(apiKey, method, body, dbOk) IN
    /\ OneStep([route |-> "competitors", method |-> method, apiKey |-> apiKey,
                body |-> body], h.out)
    /\ competitors' = h.table
    /\ UNCHANGED <<pages, keywords, keyword_metrics, serp_rankings,
                   competitor_rankings>>

Next ==
  \/ EnrichKeywordsStart
  \/ EnrichKeywordsGroup
  \/ EnrichSerpStart
  \/ EnrichSerpKeyword
  \/ EnrichSerpPersist
  \/ Health
  \/ PagesIndex
  \/ PagesImport
  \/ KeywordsIndex
  \/ KeywordsBatch
  \/ CompetitorsIndex
  \/ Return

Spec == Init /\ [][Next]_vars

\* ------------------------------------------------------------------------
\* mapSupabaseError on its own: a store call of a handler returned dbError,
\* the handler throws mapSupabaseError(dbError, operation) and the catch
\* block answers error(res, err)
\* ------------------------------------------------------------------------
StoreErrors ==
  [code : {"23505", "23503", "23502", "21000", "PGRST301", "42P01", ""},
   message : {"connection refused", "violates constraint"},
   constraint : {"", "keywords_page_id_fkey", "competitors_domain_key"},
   column : {"domain", "name", "url"}]

MapInit ==
  /\ envApiKey = "secret"
  /\ envCreds = TRUE
  /\ variant = "inline"
  /\ keywords = InitialKeywords
  /\ competitors = InitialCompetitors
  /\ pages = InitialPages
  /\ keyword_metrics = InitialMetrics
  /\ serp_rankings = InitialSerpRankings
  /\ competitor_rankings = InitialCompetitorRankings
  /\ nreq = 0
  /\ pc = "store_failed"
  /\ req \in [route : {"mapSupabaseError"}, dbError : StoreErrors,
               operation : {"select", "insert", "upsert"}]
  /\ keywordsToEnrich = <<>>
  /\ groups = <<>>
  /\ idx = 0
  /\ results = <<>>
  /\ serpRecords = <<>>
  /\ competitorRecords = <<>>
  /\ resp = NoResponse
  /\ unhandled = FALSE
  /\ providerCalls = <<>>
  /\ storeCalls = <<>>

\* throw mapSupabaseError(dbError, operation); results keeps the error thrown
MapStoreError ==
  /\ pc = "store_failed"
  /\ results' = <<mapSupabaseError(req.dbError, req.operation)>>
  /\ resp' = error(mapSupabaseError(req.dbError, req.operation))
  /\ pc' = "done"
  /\ UNCHANGED <<env, tables, nreq, req, unhandled, keywordsToEnrich, groups, idx,
                 serpRecords, competitorRecords, providerCalls, storeCalls>>

MapNext == MapStoreError

MapSpec == MapInit /\ [][MapNext]_vars

\* ------------------------------------------------------------------------
\* lib/validate.js, validateRequired on its own: body gives every field name
\* its value, Undefined for a field the body does not have
\* ------------------------------------------------------------------------
Null == "<null>"

\* missing.join(', ')
RECURSIVE join(_)
join(names) ==
  IF names = <<>> THEN ""
  ELSE IF Len(names) = 1 THEN names[1]
  ELSE names[1] \o ", " \o join(Tail(names))

\* variant of validateRequired that reports the first missing field only
validateRequiredFirstOnly(body, fields) ==
  LET missing == SelectSeq(fields, LAMBDA f : body[f] = Undefined \/ body[f] = Null)
  IN IF Len(missing) > 0
       THEN [threw |-> TRUE,
             err |-> ValidationError("Missing required field(s): " \o missing[1],
                                     [missing |-> <<missing[1]>>])]
       ELSE [threw |-> FALSE, err |-> NoDetails]

validateRequired(body, fields) ==
  LET missing == SelectSeq(fields, LAMBDA f : body[f] = Undefined \/ body[f] = Null)
  IN IF Len(missing) > 0
       THEN [threw |-> TRUE,
             err |-> ValidationError("Missing required field(s): " \o join(missing),
                                     [missing |-> missing])]
       ELSE [threw |-> FALSE, err |-> NoDetails]

ValidateInit ==
  /\ envApiKey = "secret"
  /\ envCreds = TRUE
  /\ variant = "inline"
  /\ keywords = InitialKeywords
  /\ competitors = InitialCompetitors
  /\ pages = InitialPages
  /\ keyword_metrics = InitialMetrics
  /\ serp_rankings = InitialSerpRankings
  /\ competitor_rankings = InitialCompetitorRankings
  /\ nreq = 0
  /\ pc = "validate"
  /\ req \in [route : {"validateRequired"},
               body : [{"keywords", "country", "page_id"} ->
                         {Undefined, Null, "", "UK"}],
               fields : {<<>>, <<"keywords">>, <<"country", "keywords">>,
                         <<"keywords", "country">>,
                         <<"keywords", "country", "page_id">>}]
  /\ keywordsToEnrich = <<>>
  /\ groups = <<>>
  /\ idx = 0
  /\ results = <<>>
  /\ serpRecords = <<>>
  /\ competitorRecords = <<>>
  /\ resp = NoResponse
  /\ unhandled = FALSE
  /\ providerCalls = <<>>
  /\ storeCalls = <<>>

\* validateRequired(req.body, fields); results keeps what it did
ValidateStep ==
  /\ pc = "validate"
  /\ results' = <<validateRequired(req.body, req.fields)>>
  /\ pc' = "done"
  /\ UNCHANGED <<env, tables, nreq, req, resp, unhandled, keywordsToEnrich, groups,
                 idx, serpRecords, competitorRecords, providerCalls, storeCalls>>

ValidateNext == ValidateStep

ValidateSpec == ValidateInit /\ [][ValidateNext]_vars

\* ------------------------------------------------------------------------
\* Properties
\* ------------------------------------------------------------------------
Authorized == req.apiKey = envApiKey

\* the response is the validation error that names the ceiling `max`
LimitError(r, max) ==
  /\ r.status = 400
  /\ r.code = "VALIDATION_ERROR"
  /\ "maximum" \in DOMAIN r.details
  /\ r.details.maximum = max

\* the first store call of the request is a select that returned rows
SelectedOk ==
  /\ storeCalls # <<>>
  /\ storeCalls[1].op = "select"
  /\ storeCalls[1].ok

\* inserts into the metric and ranking tables that came back with an error
FailedWrites ==
  {i \in DOMAIN storeCalls :
     /\ storeCalls[i].op = "insert"
     /\ ~storeCalls[i].ok
     /\ storeCalls[i].table \in {"keyword_metrics", "serp_rankings",
                                 "competitor_rankings"}}

MetricInsertCalls ==
  SelectSeq(storeCalls, LAMBDA c : c.table = "keyword_metrics" /\ c.op = "insert")

\* every record of every reply received so far, annotated with the country of
\* the group the call was made for
RECURSIVE RecordsReceived(_)
RecordsReceived(calls) ==
  IF calls = <<>> THEN <<>>
  ELSE [j \in DOMAIN Head(calls).reply.result |->
          [country |-> Head(calls).country, rec |-> Head(calls).reply.result[j]]]
       \o RecordsReceived(Tail(calls))

CountryOf(kw) == IF Truthy(kw.country) THEN kw.country ELSE "UK"

\* C1: on every route except /health, a request whose x-api-key header is
\* missing or differs from the configured key is answered 401 UNAUTHORIZED and
\* causes no store call and no provider call
C1_UnauthorizedRejected ==
  (/\ req.route \notin {"none", "health"}
   /\ (req.apiKey = Undefined \/ req.apiKey # envApiKey))
  => /\ storeCalls = <<>>
     /\ providerCalls = <<>>
     /\ pc = "done"
     /\ ~unhandled
     /\ resp.status = 401
     /\ resp.code = "UNAUTHORIZED"

\* C2: in /enrich/keywords a provider call that fails as a whole makes the
\* request fail with ExternalApiError, HTTP 502
C2_ProviderFailureIs502 ==
  (/\ req.route = "enrich/keywords"
   /\ pc = "done"
   /\ \E i \in DOMAIN providerCalls : CallFailed(providerCalls[i].reply))
  => /\ resp.status = 502
     /\ resp.code = "EXTERNAL_API_ERROR"
     /\ ~resp.success

\* C3: in /enrich/serp the request answers 200 with one entry per resolved
\* keyword: an error entry exactly for the keywords whose provider call failed
C3_SerpFailureScoped ==
  (/\ req.route = "enrich/serp"
   /\ pc = "done"
   /\ providerCalls # <<>>)
  => /\ resp.status = 200
     /\ Len(resp.data) = Len(keywordsToEnrich)
     /\ \A i \in DOMAIN resp.data :
          /\ resp.data[i].keyword = keywordsToEnrich[i].keyword_text
          /\ (resp.data[i].error # Undefined) <=> CallFailed(providerCalls[i].reply)

\* C4: a failed KeywordMetric, SerpRanking or CompetitorRanking write leaves
\* the outcome of the request as the provider replies alone determine it: the
\* result list keeps every entry and the status stays 200
C4_WriteFailureSwallowed ==
  FailedWrites # {} =>
    LET all == RecordsReceived(providerCalls)
        expected == [n \in DOMAIN all |-> MetricEntry(all[n].country, all[n].rec)]
        last == providerCalls[Len(providerCalls)]
    IN IF req.route = "enrich/keywords"
         THEN /\ results = expected
              /\ pc = "done" =>
                   IF MetricsOutcome(last.reply).failed
                     THEN resp.status # 200
                     ELSE /\ resp.status = 200
                          /\ resp.data = expected
         ELSE /\ req.route = "enrich/serp"
              /\ pc = "done"
              /\ resp.status = 200
              /\ resp.data = results
              /\ Len(resp.data) = Len(keywordsToEnrich)

C4_Witness ==
  /\ req.route = "enrich/keywords"
  /\ FailedWrites # {}
  /\ pc = "done"
  /\ resp.status = 200
  /\ Len(resp.data) = 2 * Cardinality(FailedWrites)

\* C5 as stated: every /enrich/keywords request carrying 101 keyword_ids is
\* answered with the validation error naming the 100 maximum, without a
\* provider call
C5_Original ==
  (/\ req.route = "enrich/keywords"
   /\ SelectedOk
   /\ Len(req.body.keyword_ids) = MAX_KEYWORDS + 1)
  => /\ providerCalls = <<>>
     /\ pc = "done"
     /\ LimitError(resp, MAX_KEYWORDS)

\* C5 amended: the ceiling applies to the rows the keyword_ids resolve to; a
\* request resolving to more than 100 stored keywords is answered with the
\* validation error naming the 100 maximum, without a provider call
C5_ResolvedOverLimit ==
  (/\ req.route = "enrich/keywords"
   /\ SelectedOk
   /\ Len(SelectIn(KeywordsTable, req.body.keyword_ids)) > MAX_KEYWORDS)
  => /\ providerCalls = <<>>
     /\ pc = "done"
     /\ LimitError(resp, MAX_KEYWORDS)
     /\ resp.details.received = Len(SelectIn(KeywordsTable, req.body.keyword_ids))

C5_Witness ==
  /\ req.route = "enrich/keywords"
  /\ SelectedOk
  /\ Len(SelectIn(KeywordsTable, req.body.keyword_ids)) = MAX_KEYWORDS + 1
  /\ LimitError(resp, MAX_KEYWORDS)

\* C6: an /enrich/serp request with more than 50 keyword_ids is answered with
\* the validation error naming the 50 maximum before any store or provider call
C6_SerpOverLimit ==
  (/\ req.route = "enrich/serp"
   /\ Authorized
   /\ req.method = "POST"
   /\ req.body.has_ids
   /\ req.body.is_array
   /\ Len(req.body.keyword_ids) > MAX_SERP_KEYWORDS)
  => /\ providerCalls = <<>>
     /\ storeCalls = <<>>
     /\ pc = "done"
     /\ LimitError(resp, MAX_SERP_KEYWORDS)

C6_Witness ==
  /\ req.route = "enrich/serp"
  /\ Len(req.body.keyword_ids) = MAX_SERP_KEYWORDS + 1
  /\ LimitError(resp, MAX_SERP_KEYWORDS)

\* C7: keyword_ids that resolve to no stored row (or, for /enrich/keywords,
\* a body with neither keyword_ids nor keywords) give a validation error, HTTP
\* 400, never a success, and no provider call
C7_EmptyWorkingSet ==
  LET post == Authorized /\ req.method = "POST"
      zero == /\ req.body.has_ids
              /\ Len(req.body.keyword_ids) > 0
              /\ SelectedOk
              /\ SelectIn(KeywordsTable, req.body.keyword_ids) = <<>>
  IN (\/ /\ req.route = "enrich/keywords"
         /\ post
         /\ (zero \/ (~req.body.has_ids /\ ~req.body.has_keywords))
      \/ /\ req.route = "enrich/serp"
         /\ post
         /\ zero)
     => /\ pc = "done"
        /\ resp.status = 400
        /\ resp.code = "VALIDATION_ERROR"
        /\ ~resp.success
        /\ providerCalls = <<>>

C7_Witness ==
  /\ req.route = "enrich/keywords"
  /\ req.body.keyword_ids = <<MissingId>>
  /\ SelectedOk
  /\ resp.status = 400

\* the calls C8 expects: one per distinct country, in order of first
\* occurrence, each with the texts of its members in their original order
ExpectedCalls(kws) ==
  LET first == SelectSeq([i \in DOMAIN kws |-> i],
                         LAMBDA i : \A j \in 1..(i - 1) :
                                      CountryOf(kws[j]) # CountryOf(kws[i]))
  IN [n \in DOMAIN first |->
        LET members == SelectSeq(kws, LAMBDA k :
                                   CountryOf(k) = CountryOf(kws[first[n]]))
        IN [country |-> CountryOf(kws[first[n]]),
            keywords |-> [m \in DOMAIN members |-> members[m].keyword_text]]]

\* C8: /enrich/keywords issues one provider call per distinct country, in
\* order of first occurrence, each carrying the texts of its group in their
\* original order; the calls made so far are always the first of these, and a
\* request answered 200 has made all of them
C8_OneCallPerCountry ==
  req.route = "enrich/keywords" =>
    LET expected == ExpectedCalls(keywordsToEnrich) IN
    /\ Len(providerCalls) <= Len(expected)
    /\ \A i \in DOMAIN providerCalls :
         /\ providerCalls[i].country = expected[i].country
         /\ providerCalls[i].keywords = expected[i].keywords
    /\ (pc = "done" /\ resp.status = 200) => Len(providerCalls) = Len(expected)

C8_Witness ==
  /\ req.route = "enrich/keywords"
  /\ pc = "done"
  /\ resp.status = 200
  /\ [i \in DOMAIN keywordsToEnrich |-> keywordsToEnrich[i].country]
       = <<"UK", "US", "UK">>
  /\ Len(providerCalls) = 2
  /\ providerCalls[1].country = "UK"
  /\ providerCalls[1].keywords = <<T_isa, T_sipp>>
  /\ providerCalls[2].country = "US"

\* C9: a provider call for a country of the enumerated set uses that
\* country's own location identifier (not the UK one unless the country is
\* UK); a country outside the set uses the UK identifier 2826
C9_OwnLocation ==
  \A i \in DOMAIN providerCalls :
    IF InSeq(providerCalls[i].country, VALID_COUNTRIES)
      THEN providerCalls[i].country # "UK"
             => providerCalls[i].location_code # DEFAULT_LOCATION
      ELSE providerCalls[i].location_code = DEFAULT_LOCATION

\* the stored keywords of the group of `country` that match a record
StoredMatches(country, rec) ==
  {keywordsToEnrich[i].id : i \in
     {i \in DOMAIN keywordsToEnrich :
        /\ CountryOf(keywordsToEnrich[i]) = country
        /\ toLowerCase(keywordsToEnrich[i].keyword_text) = toLowerCase(rec.keyword)
        /\ keywordsToEnrich[i].id # NullId}}

\* C10: every record the provider returned is in the result list with the
\* country of its group; a KeywordMetric insert is issued for a record exactly
\* when it matches, case-insensitively, a stored keyword of its group; inline
\* keywords cause no store write
C10_Reconciliation ==
  req.route = "enrich/keywords" =>
    LET all == RecordsReceived(providerCalls)
        stored == SelectSeq(all, LAMBDA e : StoredMatches(e.country, e.rec) # {})
        ins == MetricInsertCalls
    IN /\ Len(results) = Len(all)
       /\ \A n \in DOMAIN all :
            /\ results[n].keyword = all[n].rec.keyword
            /\ results[n].country = all[n].country
       /\ Len(ins) = Len(stored)
       /\ \A n \in DOMAIN ins :
            ins[n].rows[1].keyword_id \in StoredMatches(stored[n].country, stored[n].rec)
       /\ (~req.body.has_ids \/ req.body.keyword_ids = <<>>) => storeCalls = <<>>

C10_Witness ==
  /\ req.route = "enrich/keywords"
  /\ pc = "done"
  /\ resp.status = 200
  /\ Len(MetricInsertCalls) > 0
  /\ Len(results) > Len(MetricInsertCalls)
  /\ \E n \in DOMAIN results : results[n].keyword = T_bond /\ results[n].country = "UK"

C10_InlineWitness ==
  /\ req.route = "enrich/keywords"
  /\ pc = "done"
  /\ resp.status = 200
  /\ req.body.has_keywords
  /\ Len(results) > 0

\* the four metric fields of a result entry or of a KeywordMetric row
MetricFields(r) == <<r.search_volume, r.difficulty, r.cpc, r.competition>>

\* C11: every entry of the /enrich/keywords result list and every row of
\* keyword_metrics has search_volume, difficulty, cpc and competition set to a
\* number; a field the provider omitted is 0
C11_NumericDefaults ==
  /\ \A i \in DOMAIN keyword_metrics :
       \A k \in 1..4 : MetricFields(keyword_metrics[i])[k] \in Nat
  /\ req.route = "enrich/keywords" =>
       LET all == RecordsReceived(providerCalls) IN
       /\ Len(results) = Len(all)
       /\ \A n \in DOMAIN results :
            /\ \A k \in 1..4 : MetricFields(results[n])[k] \in Nat
            /\ all[n].rec.search_volume = NullNum => results[n].search_volume = 0
            /\ all[n].rec.keyword_difficulty = NullNum => results[n].difficulty = 0
            /\ all[n].rec.cpc = NullNum => results[n].cpc = 0
            /\ all[n].rec.competition = NullNum => results[n].competition = 0
            /\ all[n].rec.search_volume # NullNum
                 => results[n].search_volume = all[n].rec.search_volume

C11_Witness ==
  /\ req.route = "enrich/keywords"
  /\ pc = "done"
  /\ resp.status = 200
  /\ \E n \in DOMAIN resp.data :
       /\ RecordsReceived(providerCalls)[n].rec.keyword_difficulty = NullNum
       /\ resp.data[n].difficulty = 0
       /\ resp.data[n].search_volume > 0
  /\ \E i \in DOMAIN keyword_metrics :
       keyword_metrics[i].difficulty = 0 /\ keyword_metrics[i].search_volume > 0

\* the SerpRanking candidates of the request and the rows already stored
SerpCandidates == serpRecords \o serp_rankings

UrlStops == {"/", "?", "#", ":"}

\* d is url without its scheme, without one leading "www." and without what
\* follows the host, in lower case
IsBareDomainOf(d, url) ==
  LET low == toLowerCase(url)
      http == <<"h", "t", "t", "p", ":", "/", "/">>
      https == <<"h", "t", "t", "p", "s", ":", "/", "/">>
      www == <<"w", "w", "w", ".">>
      cut(prefix) == /\ StartsWith(low, prefix \o d)
                     /\ Len(low) > Len(prefix) + Len(d)
                          => low[Len(prefix) + Len(d) + 1] \in UrlStops
  IN /\ d # <<>>
     /\ d = toLowerCase(d)
     /\ \A i \in DOMAIN d : d[i] \notin UrlStops
     /\ \/ cut(http \o www) \/ cut(https \o www)
        \/ (~StartsWith(d, www) /\ (cut(http) \/ cut(https)))

\* C12 as stated: the domain of every SerpRanking candidate is the bare domain
\* of the item's url, and is_hoxton tells whether it contains hoxtonwealth.com
C12_Original ==
  \A i \in DOMAIN SerpCandidates :
    /\ IsBareDomainOf(SerpCandidates[i].domain, SerpCandidates[i].url)
    /\ SerpCandidates[i].is_hoxton
         <=> Includes(SerpCandidates[i].domain, HOXTON_DOMAIN)

\* C12 amended: for an item whose url is an absolute http(s) URL the domain
\* is its bare domain; a url that does not parse is kept as the domain,
\* unchanged; is_hoxton tells whether the domain contains hoxtonwealth.com
C12_BareDomain ==
  \A i \in DOMAIN SerpCandidates :
    LET c == SerpCandidates[i]
        low == toLowerCase(c.url)
        absolute == \/ StartsWith(low, <<"h", "t", "t", "p", ":", "/", "/">>)
                    \/ StartsWith(low, <<"h", "t", "t", "p", "s", ":", "/", "/">>)
    IN /\ IF absolute THEN IsBareDomainOf(c.domain, c.url) ELSE c.domain = c.url
       /\ c.is_hoxton <=> Includes(c.domain, HOXTON_DOMAIN)

C12_Witness ==
  /\ \E i \in DOMAIN serp_rankings :
       /\ serp_rankings[i].url = U_hoxton
       /\ serp_rankings[i].domain = HOXTON_DOMAIN
       /\ serp_rankings[i].is_hoxton
  /\ \E i \in DOMAIN serp_rankings :
       /\ serp_rankings[i].url = U_rival
       /\ serp_rankings[i].domain = D_rival
       /\ ~serp_rankings[i].is_hoxton

\* the competitor candidates the result items recorded so far call for:
\* one per item whose bare domain is the stored domain of a competitor
KnownCompetitor(domain) ==
  {i \in DOMAIN competitors : competitors[i].domain = domain}

ExpectedCompetitorRecords ==
  LET matched == SelectSeq(serpRecords, LAMBDA s : KnownCompetitor(s.domain) # {})
  IN [i \in DOMAIN matched |->
        [keyword_id |-> matched[i].keyword_id,
         competitor_id |-> competitors[CHOOSE c \in KnownCompetitor(matched[i].domain)
                                         : TRUE].id,
         position |-> matched[i].position, url |-> matched[i].url]]

\* C13: in /enrich/serp a CompetitorRanking candidate is created for a result
\* item exactly when the item's bare domain equals the stored domain of a
\* known competitor, and then exactly one, carrying the competitor's id, the
\* keyword's id and the item's position and url.
C13_CompetitorCandidates ==
  req.route = "enrich/serp" => competitorRecords = ExpectedCompetitorRecords

\* the inserts of the request so far, in the order they were issued
RankingWrites ==
  SelectSeq(storeCalls, LAMBDA c : c.table \in {"serp_rankings", "competitor_rankings"})

RankingWritesBatched ==
  req.route = "enrich/serp" =>
    /\ pc = "es_loop" => RankingWrites = <<>>
    /\ RankingWrites # <<>> =>
         /\ Len(results) = Len(keywordsToEnrich)
         /\ Len(RankingWrites) <= 2
         /\ \A i \in DOMAIN RankingWrites :
              /\ RankingWrites[i].op = "insert"
              /\ RankingWrites[i].table = "serp_rankings"
                   => i = 1 /\ RankingWrites[i].rows = serpRecords
              /\ RankingWrites[i].table = "competitor_rankings"
                   => /\ i = Len(RankingWrites)
                      /\ RankingWrites[i].rows = competitorRecords
         /\ Len(RankingWrites) = 2 => RankingWrites[1].table # RankingWrites[2].table

\* a step of /enrich/serp that changes a rankings table is the step after the
\* last keyword, and it adds to the table every candidate of the request
RankingsWrittenAtEnd ==
  (req.route = "enrich/serp" /\
     (serp_rankings' # serp_rankings \/ competitor_rankings' # competitor_rankings))
    => /\ pc = "es_persist" /\ pc' = "done"
       /\ Len(results) = Len(keywordsToEnrich)
       /\ serp_rankings' \in {serp_rankings, serp_rankings \o serpRecords}
       /\ competitor_rankings' \in {competitor_rankings,
                                     competitor_rankings \o competitorRecords}

\* C14: in /enrich/serp no serp_rankings or competitor_rankings write is
\* issued before every resolved keyword has been processed; a request issues
\* at most one insert into serp_rankings and then at most one insert into
\* competitor_rankings, each carrying all candidates accumulated over the
\* whole request.
C14_BatchedWrites == []RankingWritesBatched /\ [][RankingsWrittenAtEnd]_vars

\* a request over two keywords ended with both inserts, the first carrying
\* the result items of both keywords
C14_Witness ==
  /\ req.route = "enrich/serp" /\ pc = "done"
  /\ Len(keywordsToEnrich) >= 2
  /\ Len(RankingWrites) = 2
  /\ \E i, j \in DOMAIN RankingWrites[1].rows :
       RankingWrites[1].rows[i].keyword_id # RankingWrites[1].rows[j].keyword_id

\* C15: mapSupabaseError maps every store error to exactly one domain error:
\* code 23505 to DuplicateError (409), 23503 to ValidationError (400), 23502
\* to ValidationError (400) whose message names the column, and every other
\* error to DatabaseError (500) carrying the message of the original error.
\* Checked under MapSpec.
C15_StoreErrorMapping ==
  (req.route = "mapSupabaseError" /\ pc = "done") =>
    LET e == req.dbError
        m == results[1]
    IN /\ Len(results) = 1
       /\ m.app
       /\ resp.status = m.status /\ resp.code = m.code /\ ~resp.success
       /\ CASE e.code = "23505" -> m.code = "DUPLICATE_ERROR" /\ m.status = 409
            [] e.code = "23503" -> /\ m.code = "VALIDATION_ERROR" /\ m.status = 400
                                   /\ m.details = [constraint |-> e.constraint]
            [] e.code = "23502" -> /\ m.code = "VALIDATION_ERROR" /\ m.status = 400
                                   /\ m.message = "Required field is null: " \o e.column
            [] OTHER -> /\ m.code = "DATABASE_ERROR" /\ m.status = 500
                        /\ m.details = [originalError |-> e.message]
                        /\ m.message = "Database " \o req.operation \o " failed"

\* a not-null violation on column "name" was mapped
C15_Witness ==
  /\ req.route = "mapSupabaseError" /\ pc = "done"
  /\ req.dbError.code = "23502" /\ req.dbError.column = "name"
  /\ results[1].status = 400

\* C16: every error raised while a request handler runs, the errors raised
\* inside the GET and POST sub-handlers of /pages and /competitors included, is
\* caught at the handler boundary and answered with the failure envelope and
\* the status of its kind; no invocation ends with an uncaught error or
\* without a response.
C16_AllErrorsAnswered ==
  pc = "done" =>
    /\ ~unhandled
    /\ resp # NoResponse
    /\ ~resp.success => /\ resp.status \in {400, 401, 404, 409, 500, 502}
                        /\ resp.code # "" /\ resp.message # ""

\* the request in flight is a POST /keywords/batch
IsBatch == req.route = "keywords/batch" /\ req.method = "POST" /\ Authorized

\* the payload is well-formed: both fields present, an array of at most 1000
\* strings and not empty, a string country that upper-cased is a valid one
WellFormedBatch ==
  /\ req.body.has_keywords /\ req.body.has_country
  /\ req.body.is_array /\ req.body.country_is_string
  /\ Len(req.body.keywords) \in 1..MAX_BATCH
  /\ \A i \in DOMAIN req.body.keywords : req.body.keywords[i].is_string
  /\ InSeq(toUpperCase(req.body.country), VALID_COUNTRIES)

\* the distinct (keyword_text, country) pairs of the batch
BatchPairs ==
  {<<toLowerCase(trim(req.body.keywords[i].text)), toUpperCase(req.body.country)>> :
     i \in DOMAIN req.body.keywords}

\* the store was unreachable: nothing the request could have done about it
StoreUnreachable ==
  /\ resp.code = "DATABASE_ERROR"
  /\ resp.details = [originalError |-> StoreError.message]

\* C17: every valid /keywords/batch request of at most 1000 keywords succeeds
\* and returns as many rows as the batch has distinct (keyword_text, country)
\* pairs, texts trimmed and lower-cased: duplicates within the batch or
\* against stored rows collapse into one row and never give duplicate rows.
C17_DistinctPairsReturned ==
  (/\ IsBatch /\ pc = "done" /\ WellFormedBatch
   /\ req.body.page_id = NullId
   /\ ~StoreUnreachable)
  => /\ resp.status = 200
     /\ Len(resp.data) = Cardinality(BatchPairs)
     /\ \A p \in BatchPairs :
          Cardinality({i \in DOMAIN KeywordsTable :
                         <<KeywordsTable[i].keyword_text, KeywordsTable[i].country>> = p})
            = 1

\* C18: POST /keywords/batch answers 400 with a validation error and writes
\* nothing whenever its payload is malformed: keywords or country missing,
\* keywords not an array, empty or longer than 1000, a keyword entry that is
\* not a string, a country that is not a string or not a valid country.
C18_MalformedBatchRejected ==
  (IsBatch /\ pc = "done" /\ ~WellFormedBatch)
  => /\ resp.status = 400
     /\ resp.code = "VALIDATION_ERROR"
     /\ storeCalls = <<>>
     /\ ~unhandled

\* C19: after a POST /competitors that succeeds the stored domain is
\* lower-cased and has no http:// or https:// prefix and no trailing slash,
\* whatever the letter case of the parts of the domain sent.
C19_CleanStoredDomain ==
  (req.route = "competitors" /\ req.method = "POST" /\ pc = "done"
   /\ resp.status = 200)
  => LET stored == competitors[Len(competitors)].domain
     IN /\ resp.data[1].domain = stored
        /\ stored = toLowerCase(stored)
        /\ ~StartsWith(stored, <<"h", "t", "t", "p", ":", "/", "/">>)
        /\ ~StartsWith(stored, <<"h", "t", "t", "p", "s", ":", "/", "/">>)
        /\ (stored = <<>> \/ stored[Len(stored)] # "/")

\* the rows of `before` are the first rows of `after`, unchanged
Extends(after, before) ==
  /\ Len(after) >= Len(before)
  /\ SubSeq(after, 1, Len(before)) = before

AppendOnly ==
  /\ Extends(keyword_metrics', keyword_metrics)
  /\ Extends(serp_rankings', serp_rankings)
  /\ Extends(competitor_rankings', competitor_rankings)
  /\ keyword_metrics' # keyword_metrics
       => /\ req'.route = "enrich/keywords"
          /\ \E i \in DOMAIN storeCalls' :
               /\ storeCalls'[i].table = "keyword_metrics"
               /\ storeCalls'[i].op = "insert" /\ storeCalls'[i].ok
  /\ (serp_rankings' # serp_rankings \/ competitor_rankings' # competitor_rankings)
       => req'.route = "enrich/serp"
  /\ \A i \in DOMAIN storeCalls' :
       storeCalls'[i].table \in {"keyword_metrics", "serp_rankings",
                                 "competitor_rankings"}
         => /\ storeCalls'[i].op = "insert"
            /\ req'.route = IF storeCalls'[i].table = "keyword_metrics"
                               THEN "enrich/keywords" ELSE "enrich/serp"

\* C20: across any sequence of requests an existing keyword_metrics,
\* serp_rankings or competitor_rankings row is never updated or deleted; new
\* rows enter keyword_metrics only through /enrich/keywords and serp_rankings
\* and competitor_rankings only through /enrich/serp, and no other endpoint
\* writes to these tables.
C20_AppendOnlySnapshots == [][AppendOnly]_vars

\* an enrichment added rows behind the ones the tables already held
C20_Witness ==
  /\ req.route = "enrich/serp" /\ pc = "done"
  /\ Len(serp_rankings) > Len(InitialSerpRankings)
  /\ Len(competitor_rankings) > Len(InitialCompetitorRankings)
  /\ serp_rankings[1] = InitialSerpRankings[1]
  /\ competitor_rankings[1] = InitialCompetitorRankings[1]

\* 'running'
T_running == <<"r", "u", "n", "n", "i", "n", "g">>

HealthAnswered ==
  req.route = "health" =>
    /\ pc = "done" /\ ~unhandled
    /\ resp.status = 200 /\ resp.success
    /\ Includes(resp.message, T_running)
    /\ storeCalls = <<>> /\ providerCalls = <<>>

\* C21: GET /health answers 200 with success true and a message containing
\* 'running' for every request, with or without an x-api-key header, and
\* touches neither the store nor the provider.
C21_HealthAlwaysRunning ==
  []HealthAnswered /\ [][req'.route = "health" => UNCHANGED tables]_vars

\* a health request without the header, on a deployment that has a key set
C21_Witness ==
  /\ req.route = "health" /\ pc = "done"
  /\ req.apiKey = Undefined /\ envApiKey = "secret"
  /\ resp.status = 200

\* the provider calls made so far are the calls of the first keywords of the
\* working set, one each and in order
SerpCallsInOrder ==
  /\ Len(providerCalls) <= Len(keywordsToEnrich)
  /\ \A i \in DOMAIN providerCalls :
       /\ providerCalls[i].api = "serp"
       /\ providerCalls[i].keywords = <<keywordsToEnrich[i].keyword_text>>

\* the loop is over, or the request has ended after keywords were resolved
SerpLoopLeft ==
  keywordsToEnrich # <<>> /\ pc \in {"es_persist", "done"}

\* one step of the loop makes the call of the keyword at hand and moves on to
\* the next keyword, whatever the call returned
SerpLoopStep ==
  (req.route = "enrich/serp" /\ pc = "es_loop")
    => /\ Len(providerCalls') = Len(providerCalls) + 1
       /\ providerCalls'[Len(providerCalls')].keywords
            = <<keywordsToEnrich[idx].keyword_text>>
       /\ Len(results') = Len(results) + 1
       /\ IF idx < Len(keywordsToEnrich)
            THEN pc' = "es_loop" /\ idx' = idx + 1
            ELSE pc' = "es_persist"

\* C22 as stated: in /enrich/serp exactly one provider call is made per
\* resolved keyword, one after another, never retried, and a failed call
\* neither cancels nor skips the call of a later keyword.
C22_Original ==
  [](req.route = "enrich/serp" =>
       /\ SerpCallsInOrder
       /\ SerpLoopLeft => Len(providerCalls) = Len(keywordsToEnrich))
  /\ [][SerpLoopStep]_vars

\* C22: when the provider credentials are configured, /enrich/serp makes
\* exactly one provider call per resolved keyword, one after another in the
\* order of the working set, never retried, and a failed call neither cancels
\* nor skips the call of a later keyword. Without credentials no call is made.
C22_OneCallPerKeyword ==
  [](req.route = "enrich/serp" =>
       /\ SerpCallsInOrder
       /\ SerpLoopLeft =>
            Len(providerCalls) = IF envCreds THEN Len(keywordsToEnrich) ELSE 0)
  /\ [][envCreds => SerpLoopStep]_vars

\* the call of the first of two keywords failed and the second was made
C22_Witness ==
  /\ req.route = "enrich/serp" /\ pc = "done"
  /\ Len(keywordsToEnrich) >= 2
  /\ Len(providerCalls) = Len(keywordsToEnrich)
  /\ CallFailed(providerCalls[1].reply)
  /\ ~CallFailed(providerCalls[2].reply)
  /\ results[1].error # Undefined /\ results[2].error = Undefined

\* the positions of `fields` whose field is undefined or null in the body
MissingAt ==
  {i \in DOMAIN req.fields : req.body[req.fields[i]] \in {Undefined, Null}}

\* C23: validateRequired(body, fields) throws a ValidationError exactly when
\* at least one listed field is undefined or null in body, details.missing
\* then lists every such field, and it does not throw when all listed fields
\* are present. Checked under ValidateSpec.
C23_AllMissingListed ==
  (req.route = "validateRequired" /\ pc = "done") =>
    LET r == results[1] IN
    /\ r.threw <=> MissingAt # {}
    /\ r.threw =>
         /\ r.err.app /\ r.err.code = "VALIDATION_ERROR" /\ r.err.status = 400
         /\ Len(r.err.details.missing) = Cardinality(MissingAt)
         /\ \A i \in MissingAt :
              \E k \in DOMAIN r.err.details.missing :
                r.err.details.missing[k] = req.fields[i]

\* both listed fields were missing, one undefined and one null
C23_Witness ==
  /\ req.route = "validateRequired" /\ pc = "done"
  /\ req.fields = <<"keywords", "country">>
  /\ req.body["keywords"] = Undefined /\ req.body["country"] = Null
  /\ results[1].threw
  /\ results[1].err.details.missing = <<"keywords", "country">>

\* C24: within one /enrich/keywords request at most one KeywordMetric row is
\* inserted per stored keyword of the working set, whatever records the
\* provider returns, repeated records for one keyword text included.
C24_OneRowPerKeyword ==
  req.route = "enrich/keywords" =>
    \A k \in DOMAIN keywordsToEnrich :
      Cardinality({i \in DOMAIN MetricInsertCalls :
                     /\ MetricInsertCalls[i].ok
                     /\ MetricInsertCalls[i].rows[1].keyword_id = keywordsToEnrich[k].id})
        <= 1

\* C25: a /enrich/keywords request that ends in failure has inserted no
\* KeywordMetric row: metric rows are only written by requests that return
\* success.
C25_FailedRequestWritesNothing ==
  (req.route = "enrich/keywords" /\ pc = "done" /\ ~resp.success)
    => InsertedRows(MetricInsertCalls) = <<>>

\* the ids of the keywords whose entry of the result list is an error entry,
\* and of those whose entry is a summary
FailedKeywordIds ==
  {keywordsToEnrich[i].id : i \in {j \in DOMAIN results : results[j].error # Undefined}}

SucceededKeywordIds ==
  {keywordsToEnrich[i].id : i \in {j \in DOMAIN results : results[j].error = Undefined}}

RECURSIVE SumResultsCount(_)
SumResultsCount(entries) ==
  IF entries = <<>> THEN 0
  ELSE (IF Head(entries).error = Undefined THEN Head(entries).results_count ELSE 0)
       + SumResultsCount(Tail(entries))

====
